---- MODULE Spec2Model ----
(***************************************************************************)
(* A state-machine model of local-context-mcp: the cache manager           *)
(* (src/utils/cacheManager.ts), the pattern matcher                        *)
(* (src/utils/patternMatcher.ts) and the fetch-context pipeline            *)
(* (src/tools/fetchContext.ts).                                            *)
(*                                                                         *)
(* Strings that the program compares, sorts or scans character by          *)
(* character (paths, glob patterns, regex sources, file text) are tuples   *)
(* of one-character strings, e.g. <<"/", "a">> for "/a".                   *)
(***************************************************************************)
EXTENDS Integers, Sequences, FiniteSets, TLC

VARIABLES
    \* ---- cache manager, sequential calls (SpecCache)
    fsStat,     \* the file system seen by fs.stat: path -> [exists, mtimeMs]
    cacheDir,   \* the cache directory: file name -> content
    op,         \* the call that completed last, with its arguments and result
    saves,      \* history: the saveToCache calls completed so far
    clean,      \* no file and no cache file changed since the last save
    damaged     \* number of times the cache directory was damaged from outside

cacheVars == <<fsStat, cacheDir, op, saves, clean, damaged>>

VARIABLES
    \* ---- cache manager, one fingerprint, file-system steps interleaved (SpecTorn)
    payloadFile,  \* <cacheDir>/<key>: [exists, data], data a sequence of chunks
    metaFile,     \* <cacheDir>/<key>.meta.json: [exists, data]
    wpc,          \* writer -> the step of saveToCache it is about to take
    wpos,         \* writer -> number of chunks it wrote to the file it has open
    rpc,          \* the step of getCachedResult the reader is about to take
    rresult       \* what getCachedResult returned

tornVars == <<payloadFile, metaFile, wpc, wpos, rpc, rresult>>

VARIABLES
    \* ---- pattern matcher: one findMatchingFiles call (SpecMatch)
    tree,             \* the files under basePath: path -> text
    baseStat,         \* what fs.stat(basePath) yields: "directory", "file", "ENOENT"
    merror,           \* the message of the error findMatchingFiles raised, "" if none
    globs,            \* argument globs (None when undefined)
    regex,            \* argument regex (None when undefined)
    mpc,              \* where findMatchingFiles is
    pendingDirs,      \* directories whose readdir is in flight (walkDirectory)
    walkMatched,      \* matchedFiles of findFilesByGlob
    allMatchedFiles,  \* allMatchedFiles of findMatchingFiles
    filesToSearch,    \* argument files of searchFilesByRegex
    nextChunk,        \* index in filesToSearch of the first file of the next chunk
    inFlight,         \* files of the current chunk whose read has not completed
    lastIndex,        \* lastIndex of each compiled RegExp
    regexMatched,     \* matchedFiles of searchFilesByRegex
    mresult           \* what findMatchingFiles returned

matchVars == <<tree, baseStat, merror, globs, regex, mpc, pendingDirs, walkMatched, allMatchedFiles,
               filesToSearch, nextChunk, inFlight, lastIndex, regexMatched, mresult>>

VARIABLES
    \* ---- fetchContext on one matched directory (SpecFetch); it also uses
    \* tree, fsStat and cacheDir
    frequest,     \* the request: [globs, regex, reference_depth]
    importsOf,    \* source file -> the resolved paths of its import statements
    fpc,          \* where fetchContext is
    fetches,      \* number of fetchContext calls started
    fMatched,     \* matchedFilePaths
    fReferencing, \* referencingFilePaths
    fAllFiles,    \* the array allFiles
    fExtracted,   \* what extractCodeFromFile read: [path, mtimeMs] per file
    fMarkdown,    \* markdown
    fresult,      \* what the call pushed to results
    fCalls        \* the steps the current call made for the directory, in
                  \* order: [call, request, files]

fetchVars == <<frequest, importsOf, fpc, fetches, fMatched, fReferencing, fAllFiles,
               fExtracted, fMarkdown, fresult, fCalls>>

VARIABLES
    \* ---- findReferencingFiles, one call (SpecRefs)
    rTargets,      \* argument targetFiles
    rMaxDepth,     \* argument maxDepth
    rFiles,        \* what findAllSourceFiles(projectRoot) returns, in its order
    rImports,      \* file -> the paths its import statements resolve to
    references,    \* the map references: its entries in insertion order
    currentDepth,  \* currentDepth
    passes,        \* number of passes of the while loop made
    refpc          \* where findReferencingFiles is

refVars == <<rTargets, rMaxDepth, rFiles, rImports, references, currentDepth, passes, refpc>>

VARIABLES
    \* ---- extractCodeFromFile on one file (SpecExtract)
    xFile,       \* what fs.readFile(filePath) meets: "readable", "missing", "unreadable"
    xLines,      \* lines: the lines of the content of the file
    classes,     \* classes: the ClassInfo records pushed so far
    functions,   \* functions: the FunctionInfo records pushed so far
    xI,          \* i of the for loops of extractClasses and extractFunctions (0-based)
    xClass,      \* className, signature and documentation of the class in work
    methods,     \* methods of the class in work
    braceCount,  \* braceCount
    xJ,          \* j of the loops over the class body (0-based)
    xMethod,     \* name and signature of the method or function in work
    xIndex,      \* index of extractDocumentation (0-based)
    docLines,    \* docLines of extractDocumentation
    iterations,  \* iterations of the while loop of extractDocumentation in this call
    xResult,     \* what extractCodeFromFile returned (None before it returns)
    xpc          \* where extractCodeFromFile is

extractVars == <<xFile, xLines, classes, functions, xI, xClass, methods, braceCount, xJ,
                 xMethod, xIndex, docLines, iterations, xResult, xpc>>

VARIABLES
    \* ---- fetchContext over all configured directories, called by the
    \* server (SpecBatch)
    searchableDirectories,  \* config.searchableDirectories
    bDisk,           \* directory -> what fs.stat meets: "directory", "file", "missing"
    bTerm,           \* the directories whose name includes a search term
    bPatterns,       \* the request has globs or regex
    bFiles,          \* the directories in which the patterns match files
    bCached,         \* the valid cache entries: [key, payload], payload the directory
                     \* whose markdown the entry holds
    bCacheWritable,  \* files can be written in config.cacheDir
    bMatched,        \* matchedDirectories
    bK,              \* position of the for loop in matchedDirectories (1-based)
    bResults,        \* results: one section per directory, [dir, kind, payload]
    bFailed,         \* the directories in whose processing an error was raised
    bResponse,       \* what the tool call returned (None before it returns)
    bpc              \* where fetchContext is

batchVars == <<searchableDirectories, bDisk, bTerm, bPatterns, bFiles, bCached, bCacheWritable, bMatched, bK,
               bResults, bFailed, bResponse, bpc>>

VARIABLES
    \* ---- start of the server: main, the constructor, loadConfig (SpecConfig)
    argConfig,     \* the JSON of the --config argument: key -> value, None when absent
    envConfig,     \* the environment variables searchableDirectories and cacheDir
    fileConfig,    \* the object in config.json, None when the file is absent
    mcpConfig,     \* mcpConfig of main
    serverConfig,  \* this.config of the server, None before the constructor ran
    cpc            \* where main is

configVars == <<argConfig, envConfig, fileConfig, mcpConfig, serverConfig, cpc>>

VARIABLES
    \* ---- the character loop of extractCompleteSignature on one line (SpecScan)
    sLine,   \* the line that is scanned
    sPos,    \* number of characters of the line that were scanned
    sState   \* openBraces, openParens, openBrackets, inString, stringChar

scanVars == <<sLine, sPos, sState>>

VARIABLES
    \* ---- the running server with the tools update-config and fetch-context
    \* (SpecUpdate)
    uDisk,      \* config.json: [kind, value], kind "missing", "invalid" or "json"
    uWritable,  \* config.json can be written
    uServer,    \* this.config of the server, None before the constructor ran
    uReq,       \* the request of the last update-config call
    uResult,    \* what the last update-config call returned: [kind, value]
    uUsed,      \* the config the last fetch-context call was given
    uCalls,     \* number of update-config calls made
    uEdits      \* number of times config.json was changed from outside

updateVars == <<uDisk, uWritable, uServer, uReq, uResult, uUsed, uCalls, uEdits>>

\* the signature scanner on one line and the running server
lastVars == <<scanVars, updateVars>>

\* fetchContext as the server calls it, the start of the server, and the
\* signature scanner
moreVars == <<batchVars, configVars, lastVars>>

\* the groups of variables outside the cache manager, the pattern matcher and
\* fetchContext on one directory
restVars == <<refVars, extractVars, moreVars>>

vars == <<cacheVars, tornVars, matchVars, fetchVars, restVars>>

notCacheVars == <<tornVars, matchVars, fetchVars, restVars>>
notTornVars == <<cacheVars, matchVars, fetchVars, restVars>>
notMatchVars == <<cacheVars, tornVars, fetchVars, restVars>>
notRefVars == <<cacheVars, tornVars, matchVars, fetchVars, extractVars, moreVars>>
notExtractVars == <<cacheVars, tornVars, matchVars, fetchVars, refVars, moreVars>>
notBatchVars == <<cacheVars, tornVars, matchVars, fetchVars, refVars, extractVars, configVars,
                  lastVars>>
notConfigVars == <<cacheVars, tornVars, matchVars, fetchVars, refVars, extractVars, batchVars,
                   lastVars>>
notScanVars == <<cacheVars, tornVars, matchVars, fetchVars, refVars, extractVars, batchVars,
                 configVars, updateVars>>
notUpdateVars == <<cacheVars, tornVars, matchVars, fetchVars, refVars, extractVars, batchVars,
                   configVars, scanVars>>

-----------------------------------------------------------------------------
(* Bounds of the model *)

\* largest modification time a file takes
MaxTime == 1
\* number of saveToCache calls in one behaviour
MaxSaves == 1
\* number of times the cache directory is damaged from outside
MaxDamage == 1
\* number of concurrent saveToCache calls for one fingerprint
NumWriters == 2
\* number of write steps that fill the payload file
PayloadChunks == 2
\* number of write steps that fill the metadata file
MetaChunks == 1
\* largest number of characters of a file's text
MaxTextLen == 2
\* largest number of characters of a line given to the signature scanner
MaxScanLen == 4
\* number of update-config calls in one behaviour
MaxCalls == 2
\* number of times config.json is changed from outside in one behaviour
MaxEdits == 1
\* largest modification time of a file of the fetched directory
MaxFetchTime == 2
\* number of fetchContext calls in one behaviour
MaxFetches == 2
\* number of passes of findReferencingFiles after which the model stops a call
MaxPasses == 5
\* number of lines of the file contents that are enumerated
MaxLines == 3
\* number of iterations of the loop of extractDocumentation after which the
\* model stops a call
MaxIterations == 6

-----------------------------------------------------------------------------
(* Strings as tuples of characters *)

\* UTF-16 code unit of each character the model uses (String comparison in
\* Array.prototype.sort and the character classes of the regular expressions)
CharCode(c) ==
    CASE c = "." -> 46 [] c = "/" -> 47 [] c = "*" -> 42 [] c = "-" -> 45
      [] c = "_" -> 95 [] c = "R" -> 82
      [] c = "a" -> 97 [] c = "b" -> 98 [] c = "c" -> 99 [] c = "d" -> 100
      [] c = "g" -> 103 [] c = "i" -> 105 [] c = "j" -> 106 [] c = "l" -> 108
      [] c = "m" -> 109 [] c = "n" -> 110 [] c = "p" -> 112 [] c = "s" -> 115
      [] c = "t" -> 116 [] c = "x" -> 120 [] c = "y" -> 121
      [] c = "e" -> 101 [] c = "h" -> 104 [] c = "o" -> 111 [] c = "u" -> 117
      [] c = "A" -> 65 [] c = "D" -> 68 [] c = "E" -> 69 [] c = "M" -> 77
      [] OTHER -> 0

\* s < t in the order of the default comparator of Array.prototype.sort
RECURSIVE StrLess(_, _)
StrLess(s, t) ==
    IF s = <<>> THEN t # <<>>
    ELSE IF t = <<>> THEN FALSE
    ELSE IF Head(s) = Head(t) THEN StrLess(Tail(s), Tail(t))
    ELSE CharCode(Head(s)) < CharCode(Head(t))

\* insertion of x into the sorted sequence s
RECURSIVE InsertSorted(_, _)
InsertSorted(x, s) ==
    IF s = <<>> THEN <<x>>
    ELSE IF StrLess(Head(s), x) \/ Head(s) = x THEN <<Head(s)>> \o InsertSorted(x, Tail(s))
    ELSE <<x>> \o s

\* Array.prototype.sort() on an array of strings
RECURSIVE Sort(_)
Sort(s) == IF s = <<>> THEN <<>> ELSE InsertSorted(Head(s), Sort(Tail(s)))

Range(s) == {s[i] : i \in 1..Len(s)}

IsSorted(s) == \A i \in 1..Len(s) - 1 : StrLess(s[i], s[i + 1]) \/ s[i] = s[i + 1]

NoDuplicates(s) == \A i, j \in 1..Len(s) : i # j => s[i] # s[j]

-----------------------------------------------------------------------------
(* Cache manager: src/utils/cacheManager.ts *)

PathA == <<"/", "a">>
PathB == <<"/", "b">>
CacheFiles == {PathA, PathB}

\* the file lists a caller passes
FileLists == {<<PathA, PathB>>, <<PathB, PathA>>}

\* an optional field: None when the caller left it out (undefined), Some(v) otherwise
None == <<>>
Some(v) == <<v>>

DirLib == <<"l", "i", "b">>
GlobTs == <<"*", ".", "t", "s">>
GlobJs == <<"*", ".", "j", "s">>

\* CacheRequest values of the model
Requests ==
    [target_directory : {DirLib},
     globs : {Some(<<GlobTs, GlobJs>>), Some(<<GlobJs, GlobTs>>)},
     regex : {None},
     reference_depth : {None}]

\* the payload of the n-th saveToCache call (a text is a sequence of chunks;
\* every call stores a text of its own)
Payload(n) == <<n>>

\* an object as the sequence of its [key, value] entries in insertion order;
\* obj[key] = value keeps the position of a key that is already present
ObjectSet(obj, key, value) ==
    IF \E i \in 1..Len(obj) : obj[i][1] = key
    THEN [i \in 1..Len(obj) |-> IF obj[i][1] = key THEN <<key, value>> ELSE obj[i]]
    ELSE Append(obj, <<key, value>>)

\* obj[key] || 0
ObjectGetOrZero(obj, key) ==
    IF \E i \in 1..Len(obj) : obj[i][1] = key
    THEN (CHOOSE e \in Range(obj) : e[1] = key)[2]
    ELSE 0

\* fs.stat(filePath).mtimeMs, or 0 when stat throws
StatOrZero(stat, filePath) ==
    IF filePath \in DOMAIN stat /\ stat[filePath].exists
    THEN stat[filePath].mtimeMs
    ELSE 0

\* mutant: the modification time is never read (every path maps to 0)
getFileModificationTimesNoStat(stat, filePaths) ==
    LET RECURSIVE Fill(_)
        Fill(paths) ==
            IF paths = <<>> THEN <<>>
            ELSE ObjectSet(Fill(SubSeq(paths, 1, Len(paths) - 1)), paths[Len(paths)], 0)
    IN  Fill(filePaths)

\* getFileModificationTimes: the object filled in the order of filePaths
RECURSIVE getFileModificationTimes(_, _)
getFileModificationTimes(stat, filePaths) ==
    IF filePaths = <<>> THEN <<>>
    ELSE LET n == Len(filePaths)
             before == getFileModificationTimes(stat, SubSeq(filePaths, 1, n - 1))
         IN  ObjectSet(before, filePaths[n], StatOrZero(stat, filePaths[n]))

IsAlnum(c) ==
    \/ (CharCode(c) >= 97 /\ CharCode(c) <= 122)
    \/ (CharCode(c) >= 65 /\ CharCode(c) <= 90)
    \/ (CharCode(c) >= 48 /\ CharCode(c) <= 57)

\* dirName.replace(/[^a-zA-Z0-9]/g, '_')
Sanitize(s) == [i \in 1..Len(s) |-> IF IsAlnum(s[i]) THEN s[i] ELSE "_"]

\* JSON.stringify(cacheData): the fields in the order of the object literal
\* (target_directories is undefined in every request of the model and left
\* out), arrays and objects in their element and key order
CacheData(request, filePaths, modificationTimes) ==
    <<request.target_directory,
      IF request.globs = None THEN <<>> ELSE request.globs[1],
      IF request.regex = None THEN <<>> ELSE request.regex[1],
      IF request.reference_depth = None THEN -1 ELSE request.reference_depth[1],
      Sort(filePaths),
      modificationTimes>>

\* generateCacheKey: sanitized directory name, then the digest of the JSON
\* text. The digest is modelled as the text itself (no two texts collide).
generateCacheKey(request, filePaths, modificationTimes) ==
    <<Sanitize(request.target_directory),
      CacheData(request, filePaths, modificationTimes)>>

CachePath(cacheKey) == <<"md", cacheKey>>
MetaPath(cacheKey) == <<"meta", cacheKey>>

\* metadata file contents
ValidMeta(request, modTimes) ==
    [json |-> "object", hasTimes |-> TRUE, request |-> request,
     fileModificationTimes |-> modTimes]
\* text that JSON.parse rejects (also the empty file)
NotJson == [json |-> "invalid", hasTimes |-> FALSE, request |-> None,
            fileModificationTimes |-> <<>>]
\* a JSON object without the fileModificationTimes member
NoTimesMeta == [json |-> "object", hasTimes |-> FALSE, request |-> None,
                fileModificationTimes |-> <<>>]

Miss == [status |-> "null", content |-> <<>>]
Hit(content) == [status |-> "content", content |-> content]
Raised == [status |-> "raised", content |-> <<>>]

\* mutant: the comparison of line 91 inverted
ModTimeAgreesInverted(currentModTime, cachedModTime) == currentModTime # cachedModTime
\* cachedModTime agrees with the current one (line 91 returns null on !==)
ModTimeAgrees(currentModTime, cachedModTime) == currentModTime = cachedModTime

\* the body of the try block of getCachedResult: what it returns, or "throw"
TryGetCached(dir, cachePath, metaPath, modTimes) ==
    IF cachePath \notin DOMAIN dir THEN "throw"                \* fs.access(cachePath)
    ELSE IF metaPath \notin DOMAIN dir THEN "throw"            \* fs.access(metaPath)
    ELSE LET metadata == dir[metaPath] IN
         IF metadata.json = "invalid" THEN "throw"             \* JSON.parse
         ELSE IF ~metadata.hasTimes THEN "throw"               \* Object.entries(undefined)
         ELSE IF \E i \in 1..Len(metadata.fileModificationTimes) :
                    ~ModTimeAgrees(
                         ObjectGetOrZero(modTimes, metadata.fileModificationTimes[i][1]),
                         metadata.fileModificationTimes[i][2])
              THEN "null"
              ELSE "read"                                      \* fs.readFile(cachePath)

\* what the catch clause of getCachedResult does with an exception
CatchRethrows == Raised
CatchReturnsNull == Miss

\* getCachedResult
getCachedResult(dir, stat, request, filePaths) ==
    LET modTimes == getFileModificationTimes(stat, filePaths)
        cacheKey == generateCacheKey(request, filePaths, modTimes)
        outcome == TryGetCached(dir, CachePath(cacheKey), MetaPath(cacheKey), modTimes)
    IN  CASE outcome = "throw" -> CatchReturnsNull
          [] outcome = "null" -> Miss
          [] OTHER -> Hit(dir[CachePath(cacheKey)])

\* fs.writeFile(path, content): creates or replaces the file
WriteFile(dir, path, content) ==
    [p \in DOMAIN dir \cup {path} |-> IF p = path THEN content ELSE dir[p]]

\* the cache directory after saveToCache
saveToCache(dir, stat, request, filePaths, content) ==
    LET modTimes == getFileModificationTimes(stat, filePaths)
        cacheKey == generateCacheKey(request, filePaths, modTimes)
        metadata == ValidMeta(request, modTimes)
    IN  WriteFile(WriteFile(dir, CachePath(cacheKey), content),
                  MetaPath(cacheKey), metadata)

RemoveFile(dir, path) == [p \in DOMAIN dir \ {path} |-> dir[p]]

NoOp == [name |-> "none", request |-> None, filePaths |-> <<>>,
         content |-> <<>>, result |-> Miss]

EmptyDir == [p \in {} |-> <<>>]

\* the cache manager before any call
IdleCache ==
    /\ cacheDir = EmptyDir
    /\ op = NoOp
    /\ saves = {}
    /\ clean = FALSE
    /\ damaged = 0

Writers == 1..NumWriters

NoFile == [exists |-> FALSE, data |-> <<>>]

\* no call is in progress on the fingerprint
IdleTorn ==
    /\ payloadFile = NoFile
    /\ metaFile = NoFile
    /\ wpc = [w \in Writers |-> "start"]
    /\ wpos = [w \in Writers |-> 0]
    /\ rpc = "start"
    /\ rresult = Miss

\* no findMatchingFiles call was made
IdleMatch ==
    /\ tree = EmptyDir
    /\ baseStat = "directory"
    /\ merror = ""
    /\ globs = None
    /\ regex = None
    /\ mpc = "idle"
    /\ pendingDirs = {}
    /\ walkMatched = {}
    /\ allMatchedFiles = {}
    /\ filesToSearch = <<>>
    /\ nextChunk = 1
    /\ inFlight = {}
    /\ lastIndex = <<>>
    /\ regexMatched = {}
    /\ mresult = <<>>

\* no findReferencingFiles call was made
IdleRefs ==
    /\ rTargets = <<>>
    /\ rMaxDepth = -1
    /\ rFiles = <<>>
    /\ rImports = EmptyDir
    /\ references = <<>>
    /\ currentDepth = 1
    /\ passes = 0
    /\ refpc = "idle"

NoClass == [className |-> <<>>, signature |-> <<>>, documentation |-> <<>>]
NoMethod == [name |-> <<>>, signature |-> <<>>]

\* no extractClasses call was made
IdleExtract ==
    /\ xFile = "readable"
    /\ xLines = <<>>
    /\ classes = <<>>
    /\ functions = <<>>
    /\ xResult = <<>>
    /\ xI = 0
    /\ xClass = NoClass
    /\ methods = <<>>
    /\ braceCount = 0
    /\ xJ = 0
    /\ xMethod = NoMethod
    /\ xIndex = 0
    /\ docLines = <<>>
    /\ iterations = 0
    /\ xpc = "idle"

\* nothing outside the cache manager, the pattern matcher and fetchContext
\* was called
\* fetchContext was not called by the server
IdleBatch ==
    /\ searchableDirectories = <<>>
    /\ bDisk = <<>>
    /\ bTerm = {}
    /\ bPatterns = FALSE
    /\ bFiles = {}
    /\ bCached = {}
    /\ bCacheWritable = TRUE
    /\ bMatched = <<>>
    /\ bK = 1
    /\ bResults = <<>>
    /\ bFailed = {}
    /\ bResponse = <<>>
    /\ bpc = "idle"

\* the server was not started
IdleConfig ==
    /\ argConfig = <<>>
    /\ envConfig = <<>>
    /\ fileConfig = <<>>
    /\ mcpConfig = <<>>
    /\ serverConfig = <<>>
    /\ cpc = "idle"

\* no line is scanned
IdleScan ==
    /\ sLine = <<>>
    /\ sPos = 0
    /\ sState = <<>>

\* no server runs
IdleUpdate ==
    /\ uDisk = <<>>
    /\ uWritable = TRUE
    /\ uServer = <<>>
    /\ uReq = <<>>
    /\ uResult = <<>>
    /\ uUsed = <<>>
    /\ uCalls = 0
    /\ uEdits = 0

IdleLast == IdleScan /\ IdleUpdate

IdleMore == IdleBatch /\ IdleConfig /\ IdleLast

IdleRest == IdleRefs /\ IdleExtract /\ IdleMore

NoResult == [kind |-> "none", content |-> <<>>]

\* no fetchContext call was made
IdleFetch ==
    /\ frequest = [globs |-> None, regex |-> None, reference_depth |-> None]
    /\ importsOf = EmptyDir
    /\ fpc = "idle"
    /\ fetches = 0
    /\ fMatched = <<>>
    /\ fReferencing = <<>>
    /\ fAllFiles = <<>>
    /\ fExtracted = <<>>
    /\ fMarkdown = <<>>
    /\ fresult = NoResult
    /\ fCalls = <<>>

InitCache ==
    /\ IdleMatch
    /\ IdleFetch
    /\ IdleRest
    /\ fsStat \in [CacheFiles -> [exists : {TRUE}, mtimeMs : 0..1]]
    /\ IdleCache
    /\ IdleTorn

\* the caller stores a payload
SaveToCache ==
    /\ Cardinality(saves) < MaxSaves
    /\ \E request \in Requests, filePaths \in FileLists :
       LET content == Payload(Cardinality(saves) + 1) IN
         /\ cacheDir' = saveToCache(cacheDir, fsStat, request, filePaths, content)
         /\ op' = [name |-> "save", request |-> request, filePaths |-> filePaths,
                   content |-> content, result |-> Miss]
         /\ saves' = saves \cup
               {[request |-> request, filePaths |-> filePaths, content |-> content,
                 times |-> [f \in Range(filePaths) |-> StatOrZero(fsStat, f)]]}
         /\ clean' = TRUE
    /\ UNCHANGED <<fsStat, damaged>>
    /\ UNCHANGED notCacheVars

\* the caller looks a payload up
GetCachedResult ==
    /\ \E request \in Requests, filePaths \in FileLists :
         op' = [name |-> "lookup", request |-> request, filePaths |-> filePaths,
                content |-> <<>>,
                result |-> getCachedResult(cacheDir, fsStat, request, filePaths)]
    /\ UNCHANGED <<fsStat, cacheDir, saves, clean, damaged>>
    /\ UNCHANGED notCacheVars

\* utimes / a write: a file gets another modification time
TouchFile ==
    /\ \E f \in CacheFiles, t \in 0..MaxTime :
         /\ fsStat[f].exists
         /\ fsStat[f].mtimeMs # t
         /\ fsStat' = [fsStat EXCEPT ![f] = [exists |-> TRUE, mtimeMs |-> t]]
         /\ op' = NoOp
    /\ clean' = FALSE
    /\ UNCHANGED <<cacheDir, saves, damaged>>
    /\ UNCHANGED notCacheVars

\* a file is removed
DeleteFile ==
    /\ \E f \in CacheFiles :
         /\ fsStat[f].exists
         /\ fsStat' = [fsStat EXCEPT ![f] = [exists |-> FALSE, mtimeMs |-> 0]]
         /\ op' = NoOp
    /\ clean' = FALSE
    /\ UNCHANGED <<cacheDir, saves, damaged>>
    /\ UNCHANGED notCacheVars

\* external damage to the cache directory: a cache file is removed, or a
\* metadata file is replaced by text that is no JSON or lacks the timestamps
DamageCache ==
    /\ damaged < MaxDamage
    /\ \E p \in DOMAIN cacheDir :
         \/ cacheDir' = RemoveFile(cacheDir, p)
         \/ /\ p[1] = "meta"
            /\ \E bad \in {NotJson, NoTimesMeta} :
                 /\ cacheDir[p] # bad
                 /\ cacheDir' = WriteFile(cacheDir, p, bad)
    /\ op' = NoOp
    /\ clean' = FALSE
    /\ damaged' = damaged + 1
    /\ UNCHANGED <<fsStat, saves>>
    /\ UNCHANGED notCacheVars

\* calls of the cache manager while the files it fingerprints change
NextCache ==
    \/ SaveToCache
    \/ GetCachedResult
    \/ TouchFile
    \/ DeleteFile

SpecCache == InitCache /\ [][NextCache]_vars

\* calls of the cache manager while the cache directory is damaged
NextCacheDamage ==
    \/ SaveToCache
    \/ GetCachedResult
    \/ DamageCache

SpecCacheDamage == InitCache /\ [][NextCacheDamage]_vars

-----------------------------------------------------------------------------
(* saveToCache and getCachedResult step by step on one fingerprint: every    *)
(* call computes the same cache key (the files it fingerprints do not        *)
(* change), so all calls address the same payload and metadata file.         *)

Hole == [writer |-> 0, index |-> 0]

\* the k-th chunk of the text that writer w passes to fs.writeFile
Chunk(w, k) == [writer |-> w, index |-> k]

\* the payload that writer w passes to saveToCache
FullPayload(w) == [k \in 1..PayloadChunks |-> Chunk(w, k)]

\* a write of chunk c at chunk offset k - 1 through an open descriptor: the
\* file grows as needed, and bytes never written read as a hole
WriteAt(data, k, c) ==
    [i \in 1..(IF Len(data) > k THEN Len(data) ELSE k) |->
        IF i = k THEN c ELSE IF i <= Len(data) THEN data[i] ELSE Hole]

\* JSON.parse accepts the metadata text only when it is complete
ParsesAsJson(data) ==
    /\ Len(data) = MetaChunks
    /\ \A i \in 1..Len(data) : data[i] # Hole

\* fs.writeFile(cachePath, content) opens the file with O_CREAT | O_TRUNC
OpenPayload(w) ==
    /\ wpc[w] = "start"
    /\ payloadFile' = [exists |-> TRUE, data |-> <<>>]
    /\ wpc' = [wpc EXCEPT ![w] = "writePayload"]
    /\ wpos' = [wpos EXCEPT ![w] = 0]
    /\ UNCHANGED <<metaFile, rpc, rresult>>
    /\ UNCHANGED notTornVars

\* ... and fills it; after the last chunk the first await of line 126 ends
WritePayload(w) ==
    /\ wpc[w] = "writePayload"
    /\ payloadFile' = [payloadFile EXCEPT
                          !.data = WriteAt(@, wpos[w] + 1, Chunk(w, wpos[w] + 1))]
    /\ wpos' = [wpos EXCEPT ![w] = @ + 1]
    /\ wpc' = [wpc EXCEPT ![w] = IF wpos[w] + 1 = PayloadChunks
                                  THEN "openMeta" ELSE "writePayload"]
    /\ UNCHANGED <<metaFile, rpc, rresult>>
    /\ UNCHANGED notTornVars

\* fs.writeFile(metaPath, ...) opens the metadata file with O_CREAT | O_TRUNC
OpenMeta(w) ==
    /\ wpc[w] = "openMeta"
    /\ metaFile' = [exists |-> TRUE, data |-> <<>>]
    /\ wpc' = [wpc EXCEPT ![w] = "writeMeta"]
    /\ wpos' = [wpos EXCEPT ![w] = 0]
    /\ UNCHANGED <<payloadFile, rpc, rresult>>
    /\ UNCHANGED notTornVars

\* ... and fills it; after the last chunk saveToCache returns
WriteMeta(w) ==
    /\ wpc[w] = "writeMeta"
    /\ metaFile' = [metaFile EXCEPT
                       !.data = WriteAt(@, wpos[w] + 1, Chunk(w, wpos[w] + 1))]
    /\ wpos' = [wpos EXCEPT ![w] = @ + 1]
    /\ wpc' = [wpc EXCEPT ![w] = IF wpos[w] + 1 = MetaChunks
                                  THEN "done" ELSE "writeMeta"]
    /\ UNCHANGED <<payloadFile, rpc, rresult>>
    /\ UNCHANGED notTornVars

\* getCachedResult: fs.access(cachePath)
AccessPayload ==
    /\ rpc = "start"
    /\ IF payloadFile.exists
       THEN rpc' = "accessMeta" /\ UNCHANGED rresult
       ELSE rpc' = "done" /\ rresult' = Miss
    /\ UNCHANGED <<payloadFile, metaFile, wpc, wpos>>
    /\ UNCHANGED notTornVars

\* getCachedResult: fs.access(metaPath)
AccessMeta ==
    /\ rpc = "accessMeta"
    /\ IF metaFile.exists
       THEN rpc' = "readMeta" /\ UNCHANGED rresult
       ELSE rpc' = "done" /\ rresult' = Miss
    /\ UNCHANGED <<payloadFile, metaFile, wpc, wpos>>
    /\ UNCHANGED notTornVars

\* getCachedResult: read and parse the metadata, compare the timestamps (they
\* agree: every writer recorded the timestamps the reader sees)
ReadMeta ==
    /\ rpc = "readMeta"
    /\ IF ParsesAsJson(metaFile.data)
       THEN rpc' = "readPayload" /\ UNCHANGED rresult
       ELSE rpc' = "done" /\ rresult' = Miss
    /\ UNCHANGED <<payloadFile, metaFile, wpc, wpos>>
    /\ UNCHANGED notTornVars

\* getCachedResult: return fs.readFile(cachePath)
ReadPayload ==
    /\ rpc = "readPayload"
    /\ rpc' = "done"
    /\ rresult' = Hit(payloadFile.data)
    /\ UNCHANGED <<payloadFile, metaFile, wpc, wpos>>
    /\ UNCHANGED notTornVars

\* the caller looks the fingerprint up again
LookupAgain ==
    /\ rpc = "done"
    /\ rpc' = "start"
    /\ rresult' = Miss
    /\ UNCHANGED <<payloadFile, metaFile, wpc, wpos>>
    /\ UNCHANGED notTornVars

InitTorn ==
    /\ IdleMatch
    /\ IdleFetch
    /\ IdleRest
    /\ fsStat = [f \in CacheFiles |-> [exists |-> TRUE, mtimeMs |-> 1]]
    /\ IdleCache
    /\ IdleTorn

NextTorn ==
    \/ \E w \in Writers : OpenPayload(w)
    \/ \E w \in Writers : WritePayload(w)
    \/ \E w \in Writers : OpenMeta(w)
    \/ \E w \in Writers : WriteMeta(w)
    \/ AccessPayload
    \/ AccessMeta
    \/ ReadMeta
    \/ ReadPayload
    \/ LookupAgain

SpecTorn == InitTorn /\ [][NextTorn]_vars

\* C5: under every interleaving of the file-system steps of saveToCache with
\* getCachedResult, getCachedResult returns absent or a complete payload that
\* some saveToCache call was given; never an empty or partly written one.
C5_NoTornPayload ==
    (rpc = "done" /\ rresult.status = "content")
        => \E w \in Writers : rresult.content = FullPayload(w)

-----------------------------------------------------------------------------
(* Properties of the cache manager *)

\* the saveToCache call that completed last
LastSave == CHOOSE s \in saves : s.content = Payload(Cardinality(saves))

\* the lookup that completed last repeats the arguments of the last save, and
\* nothing changed in between
LookupRepeatsLastSave ==
    /\ op.name = "lookup"
    /\ saves # {}
    /\ clean
    /\ op.request = LastSave.request
    /\ op.filePaths = LastSave.filePaths

TimesUnchanged(s) == \A f \in DOMAIN s.times : s.times[f] = StatOrZero(fsStat, f)

IsPermutation(s, t) ==
    /\ Len(s) = Len(t)
    /\ \E f \in [1..Len(s) -> 1..Len(s)] :
         /\ \A i, j \in 1..Len(s) : i # j => f[i] # f[j]
         /\ \A i \in 1..Len(s) : t[i] = s[f[i]]

\* C4: the cache key does not depend on the order of the glob list, of the
\* regex list and of the file path list, so a lookup with permuted lists hits
\* the entry stored with the original order.
C4_KeyIgnoresOrder ==
    ( /\ op.name = "lookup"
      /\ saves # {}
      /\ clean
      /\ op.request.target_directory = LastSave.request.target_directory
      /\ IsPermutation(op.request.globs[1], LastSave.request.globs[1])
      /\ op.request.regex = LastSave.request.regex
      /\ op.request.reference_depth = LastSave.request.reference_depth
      /\ IsPermutation(op.filePaths, LastSave.filePaths) )
    => op.result = Hit(LastSave.content)

\* the entry that the last lookup addressed lacks its payload file or its
\* metadata file, or its metadata is no JSON or has no timestamp map
LookupOfBrokenEntry ==
    LET cacheKey == generateCacheKey(op.request, op.filePaths,
                        getFileModificationTimes(fsStat, op.filePaths))
    IN  /\ op.name = "lookup"
        /\ \/ CachePath(cacheKey) \notin DOMAIN cacheDir
           \/ MetaPath(cacheKey) \notin DOMAIN cacheDir
           \/ cacheDir[MetaPath(cacheKey)].json = "invalid"
           \/ ~cacheDir[MetaPath(cacheKey)].hasTimes

\* C6: getCachedResult never raises; on a missing payload file, a missing
\* metadata file, metadata that is no JSON or metadata without the timestamp
\* map it returns absent; and it leaves the cache directory as it was.
C6_LookupNeverFails ==
    /\ [](op.name = "lookup" => op.result.status # "raised")
    /\ [](LookupOfBrokenEntry => op.result = Miss)
    /\ [][op'.name = "lookup" => cacheDir' = cacheDir]_vars

\* a lookup of an entry whose payload is there and whose metadata lost the
\* timestamp map returns absent
C6_Witness ==
    LET cacheKey == generateCacheKey(op.request, op.filePaths,
                        getFileModificationTimes(fsStat, op.filePaths))
    IN  /\ op.name = "lookup"
        /\ CachePath(cacheKey) \in DOMAIN cacheDir
        /\ MetaPath(cacheKey) \in DOMAIN cacheDir
        /\ cacheDir[MetaPath(cacheKey)] = NoTimesMeta
        /\ op.result = Miss

-----------------------------------------------------------------------------
(* Pattern matcher: src/utils/patternMatcher.ts *)

\* s.split("/")
RECURSIVE Split(_)
Split(s) ==
    IF s = <<>> THEN << <<>> >>
    ELSE LET rest == Split(Tail(s)) IN
         IF Head(s) = "/" THEN << <<>> >> \o rest
         ELSE << <<Head(s)>> \o Head(rest) >> \o Tail(rest)

\* path.join(dirPath, name)
Join(dirPath, name) == dirPath \o <<"/">> \o name

\* path.relative(basePath, fullPath), fullPath below basePath
Relative(basePath, fullPath) == SubSeq(fullPath, Len(basePath) + 2, Len(fullPath))

\* the names below basePath from which the trees of the model are built
BasePath == <<"/", "p">>
DirSrc == <<"s">>
DirHidden == <<".", "h">>
DirNodeModules == <<"n", "o", "d", "e", "_", "m", "o", "d", "u", "l", "e", "s">>
FileA == Join(BasePath, <<"a", ".", "t", "s">>)
FileB == Join(Join(BasePath, DirSrc), <<"b", ".", "t", "s">>)
FileC == Join(Join(BasePath, DirHidden), <<"c", ".", "t", "s">>)
FileD == Join(Join(BasePath, DirNodeModules), <<"d", ".", "t", "s">>)

\* the directories of every tree, each with its parent and its name
TreeDirs ==
    {[path |-> Join(BasePath, n), parent |-> BasePath, name |-> n] :
        n \in {DirSrc, DirHidden, DirNodeModules}}

\* path.dirname(path)
RECURSIVE Dirname(_)
Dirname(path) ==
    IF path = <<>> THEN <<>>
    ELSE IF path[Len(path)] = "/" THEN SubSeq(path, 1, Len(path) - 1)
    ELSE Dirname(SubSeq(path, 1, Len(path) - 1))

\* path.basename(path)
Basename(path) == LET parts == Split(path) IN parts[Len(parts)]

\* the texts a file holds: every text of 1..MaxTextLen characters x and y
Texts == UNION {[1..n -> {"x", "y"}] : n \in 1..MaxTextLen}

\* a name starts with "."
StartsWithDot(name) == name # <<>> /\ name[1] = "."

\* mutant: || and !== in place of && and !== in the test of line 28
IsSkippedDirectoryWrongOperator(name) == StartsWithDot(name) \/ name # DirNodeModules
\* walkDirectory does not descend into hidden directories and node_modules
IsSkippedDirectory(name) == StartsWithDot(name) \/ name = DirNodeModules

\* one path segment against one pattern segment: "*" stands for any run of
\* characters (option dot: also at the start of a name), any other character
\* for itself
RECURSIVE WildMatch(_, _)
WildMatch(pat, name) ==
    IF pat = <<>> THEN name = <<>>
    ELSE IF Head(pat) = "*"
         THEN WildMatch(Tail(pat), name) \/ (name # <<>> /\ WildMatch(pat, Tail(name)))
         ELSE name # <<>> /\ Head(name) = Head(pat) /\ WildMatch(Tail(pat), Tail(name))

GlobStar == <<"*", "*">>

\* the segments of a path against the segments of a pattern; "**" stands for
\* any number of segments, the last segment of a pattern for at least one
RECURSIVE MatchParts(_, _)
MatchParts(file, pattern) ==
    IF pattern = <<>> THEN file = <<>>
    ELSE IF Head(pattern) = GlobStar
         THEN IF Len(pattern) = 1 THEN file # <<>>
              ELSE \E k \in 0..Len(file) :
                       MatchParts(SubSeq(file, k + 1, Len(file)), Tail(pattern))
         ELSE /\ file # <<>>
              /\ WildMatch(Head(pattern), Head(file))
              /\ MatchParts(Tail(file), Tail(pattern))

\* minimatch(relativePath, pattern, { dot: true, matchBase: true }) for patterns
\* made of literal characters, "*", "**" and "/": a pattern without "/" is
\* matched against the basename
Minimatch(relativePath, pattern) ==
    LET file == Split(relativePath)
        parts == Split(pattern)
    IN  IF Len(parts) = 1 THEN MatchParts(<<file[Len(file)]>>, parts)
        ELSE MatchParts(file, parts)

\* a glob of more than 65536 characters: "..." stands for the rest of it
GlobTooLong == <<"a", "...">>

\* minimatch raises a TypeError ("pattern is too long") for a pattern of more
\* than 65536 characters; it raises for no other string
MinimatchThrows(pattern) == "..." \in Range(pattern)

\* mutant: the try block around the whole loop, a pattern that raises ends it
MatchesAnyGlobAborting(basePath, fullPath, patterns) ==
    \E i \in 1..Len(patterns) :
        /\ \A j \in 1..i : ~MinimatchThrows(patterns[j])
        /\ Minimatch(Relative(basePath, fullPath), patterns[i])

\* a file matches one of the patterns (the loop of lines 35-44: a pattern
\* for which minimatch raises is logged and the loop goes on)
MatchesAnyGlob(basePath, fullPath, patterns) ==
    \E i \in 1..Len(patterns) :
        /\ ~MinimatchThrows(patterns[i])
        /\ Minimatch(Relative(basePath, fullPath), patterns[i])

\* mutant: the array in descending order
RECURSIVE SortSetDescending(_)
SortSetDescending(S) ==
    IF S = {} THEN <<>>
    ELSE LET greatest == CHOOSE x \in S : \A y \in S : x = y \/ StrLess(y, x)
         IN  <<greatest>> \o SortSetDescending(S \ {greatest})

\* the set S of strings as a sorted array
RECURSIVE SortSet(_)
SortSet(S) ==
    IF S = {} THEN <<>>
    ELSE LET least == CHOOSE x \in S : \A y \in S : x = y \/ StrLess(x, y)
         IN  <<least>> \o SortSet(S \ {least})

\* source.startsWith(prefix) at 0-based position i
OccursAt(source, text, i) ==
    /\ i + Len(source) <= Len(text)
    /\ \A k \in 1..Len(source) : text[i + k] = source[k]

\* the text contains a match of the pattern (a fresh RegExp, lastIndex 0)
Contains(text, source) == \E i \in 0..Len(text) : OccursAt(source, text, i)

\* RegExp.prototype.test of a RegExp with the g flag whose source is a literal
\* text: the search starts at lastIndex; a match moves lastIndex behind itself,
\* a failure resets it to 0
RegexTest(source, text, from) ==
    IF from <= Len(text) /\ \E i \in from..Len(text) : OccursAt(source, text, i)
    THEN LET at == CHOOSE i \in from..Len(text) :
                      /\ OccursAt(source, text, i)
                      /\ \A j \in from..(i - 1) : ~OccursAt(source, text, j)
         IN  [found |-> TRUE, lastIndex |-> at + Len(source)]
    ELSE [found |-> FALSE, lastIndex |-> 0]

\* new RegExp(source, 'gm') succeeds: the sources of the model are literal
\* texts, and texts with a "(" that is never closed, for which it raises
IsValidRegex(source) == "(" \notin Range(source)

\* compiledPatterns (lines 69-78): the patterns that compile, in their order
CompilePatterns(patterns) == SelectSeq(patterns, IsValidRegex)

\* the loop of lines 106-111 over compiledPatterns from index i on: whether a
\* pattern matched, and the lastIndex of every pattern after the loop
RECURSIVE TestPatterns(_, _, _, _)
TestPatterns(patterns, text, indexes, i) ==
    IF i > Len(patterns) THEN [matched |-> FALSE, lastIndex |-> indexes]
    ELSE LET t == RegexTest(patterns[i], text, indexes[i])
             updated == [indexes EXCEPT ![i] = t.lastIndex]
         IN  IF t.found THEN [matched |-> TRUE, lastIndex |-> updated]
             ELSE TestPatterns(patterns, text, updated, i + 1)

\* CONCURRENCY_LIMIT of searchFilesByRegex
CONCURRENCY_LIMIT == 10

\* mutant: only a missing basePath is refused
ValidateBasePathOnlyMissing(stat) ==
    IF stat = "ENOENT" THEN "does not exist" ELSE ""

\* lines 138-150: the message of the error raised for basePath, "" if none
ValidateBasePath(stat) ==
    IF stat = "ENOENT" THEN "does not exist"
    ELSE IF stat # "directory" THEN "is not a directory"
    ELSE ""

\* x is given and not the empty list
NonEmpty(x) == x # None /\ x[1] # <<>>

GlobAll == <<"*", "*", "/", "*">>

\* the patterns of the walk in progress
WalkPatterns == IF mpc = "walk" THEN globs[1] ELSE <<GlobAll>>

\* the argument lists of the model
GlobLists ==
    {None, Some(<<>>), Some(<< <<"*", ".", "t", "s">> >>),
     Some(<< <<"s", "/", "*">> >>), Some(<< GlobAll >>),
     Some(<<GlobTooLong>>), Some(<<GlobTooLong, GlobAll>>)}
RegexLists ==
    {None, Some(<<>>), Some(<< <<"x">> >>), Some(<< <<"y", "x">>, <<"y">> >>),
     Some(<< <<"(">> >>), Some(<< <<"(">>, <<"x">> >>)}

InitMatch ==
    /\ IdleFetch
    /\ IdleRest
    /\ fsStat = [f \in CacheFiles |-> [exists |-> TRUE, mtimeMs |-> 1]]
    /\ IdleCache
    /\ IdleTorn
    /\ baseStat \in {"directory", "file", "ENOENT"}
    /\ merror = ""
    /\ \E present \in SUBSET {FileA, FileB, FileC, FileD} :
         /\ tree \in [present -> Texts]
         /\ baseStat # "directory" => present = {}
    /\ \A f \in DOMAIN tree \cap {FileC, FileD} : tree[f] = <<"x">>
    /\ globs \in GlobLists
    /\ regex \in RegexLists
    /\ mpc = "start"
    /\ pendingDirs = {}
    /\ walkMatched = {}
    /\ allMatchedFiles = {}
    /\ filesToSearch = <<>>
    /\ nextChunk = 1
    /\ inFlight = {}
    /\ lastIndex = <<>>
    /\ regexMatched = {}
    /\ mresult = <<>>

\* mutant: absent globs and regex stand for the glob "**/*" (no early return)
StartFindDefaultGlob ==
    /\ mpc = "start"
    /\ merror' = ValidateBasePath(baseStat)
    /\ IF ValidateBasePath(baseStat) # ""
       THEN mpc' = "failed" /\ pendingDirs' = {}
       ELSE IF NonEmpty(globs)
            THEN mpc' = "walk" /\ pendingDirs' = {BasePath}
            ELSE mpc' = "walkAll" /\ pendingDirs' = {BasePath}
    /\ UNCHANGED <<tree, baseStat, globs, regex, walkMatched, allMatchedFiles, filesToSearch,
                   nextChunk, inFlight, lastIndex, regexMatched, mresult>>
    /\ UNCHANGED notMatchVars

\* findMatchingFiles: the validation of basePath, then the walk for the globs,
\* or for "**/*" when only regex is given, or the empty result when neither is
\* given
StartFind ==
    /\ mpc = "start"
    /\ merror' = ValidateBasePath(baseStat)
    /\ IF ValidateBasePath(baseStat) # ""
       THEN mpc' = "failed" /\ pendingDirs' = {}
       ELSE IF NonEmpty(globs)
            THEN mpc' = "walk" /\ pendingDirs' = {BasePath}
            ELSE IF NonEmpty(regex)
                 THEN mpc' = "walkAll" /\ pendingDirs' = {BasePath}
                 ELSE mpc' = "done" /\ pendingDirs' = {}
    /\ UNCHANGED <<tree, baseStat, globs, regex, walkMatched, allMatchedFiles, filesToSearch,
                   nextChunk, inFlight, lastIndex, regexMatched, mresult>>
    /\ UNCHANGED notMatchVars

\* walkDirectory(dirPath) once its readdir resolved: the matching files are
\* added, the walk of every subdirectory that is not skipped starts
WalkDirectory(dirPath) ==
    /\ mpc \in {"walk", "walkAll"}
    /\ dirPath \in pendingDirs
    /\ walkMatched' = walkMatched \cup
          {f \in DOMAIN tree : /\ Dirname(f) = dirPath
                               /\ MatchesAnyGlob(BasePath, f, WalkPatterns)}
    /\ pendingDirs' = (pendingDirs \ {dirPath}) \cup
          {d.path : d \in {e \in TreeDirs : e.parent = dirPath /\ ~IsSkippedDirectory(e.name)}}
    /\ UNCHANGED <<tree, baseStat, merror, globs, regex, mpc, allMatchedFiles, filesToSearch,
                   nextChunk, inFlight, lastIndex, regexMatched, mresult>>
    /\ UNCHANGED notMatchVars

\* findFilesByGlob returns the sorted matches; findMatchingFiles adds the
\* matches of the globs to allMatchedFiles and returns, or goes on to
\* searchFilesByRegex, which returns at once without files or without a
\* pattern that compiles (lines 64-66, 80-82)
FinishWalk ==
    /\ mpc \in {"walk", "walkAll"}
    /\ pendingDirs = {}
    /\ allMatchedFiles' = IF mpc = "walk" THEN walkMatched ELSE {}
    /\ IF NonEmpty(regex)
       THEN /\ filesToSearch' = SortSet(walkMatched)
            /\ IF walkMatched # {} /\ CompilePatterns(regex[1]) # <<>>
               THEN /\ mpc' = "search"
                    /\ lastIndex' = [i \in 1..Len(CompilePatterns(regex[1])) |-> 0]
                    /\ UNCHANGED mresult
               ELSE /\ mpc' = "done"
                    /\ mresult' = SortSet(IF mpc = "walk" THEN walkMatched ELSE {})
                    /\ UNCHANGED lastIndex
       ELSE /\ mpc' = "done"
            /\ mresult' = SortSet(walkMatched)
            /\ UNCHANGED <<filesToSearch, lastIndex>>
    /\ UNCHANGED <<tree, baseStat, merror, globs, regex, pendingDirs, walkMatched, nextChunk, inFlight,
                   regexMatched>>
    /\ UNCHANGED notMatchVars

\* the next chunk of at most CONCURRENCY_LIMIT files: all its reads start
StartChunk ==
    /\ mpc = "search"
    /\ inFlight = {}
    /\ nextChunk <= Len(filesToSearch)
    /\ inFlight' = {filesToSearch[i] : i \in
                      nextChunk..(IF nextChunk + CONCURRENCY_LIMIT - 1 < Len(filesToSearch)
                                  THEN nextChunk + CONCURRENCY_LIMIT - 1
                                  ELSE Len(filesToSearch))}
    /\ nextChunk' = nextChunk + CONCURRENCY_LIMIT
    /\ UNCHANGED <<tree, baseStat, merror, globs, regex, mpc, pendingDirs, walkMatched, allMatchedFiles,
                   filesToSearch, lastIndex, regexMatched, mresult>>
    /\ UNCHANGED notMatchVars

\* the read of one file of the chunk completes and its text is tested against
\* the compiled patterns (lines 103-111)
CompleteRead(filePath) ==
    /\ mpc = "search"
    /\ filePath \in inFlight
    /\ LET t == TestPatterns(CompilePatterns(regex[1]), tree[filePath], lastIndex, 1) IN
         /\ lastIndex' = t.lastIndex
         /\ regexMatched' = IF t.matched THEN regexMatched \cup {filePath}
                            ELSE regexMatched
    /\ inFlight' = inFlight \ {filePath}
    /\ UNCHANGED <<tree, baseStat, merror, globs, regex, mpc, pendingDirs, walkMatched, allMatchedFiles,
                   filesToSearch, nextChunk, mresult>>
    /\ UNCHANGED notMatchVars

\* searchFilesByRegex returns after the last chunk; findMatchingFiles adds the
\* matches and returns the sorted array
FinishSearch ==
    /\ mpc = "search"
    /\ inFlight = {}
    /\ nextChunk > Len(filesToSearch)
    /\ allMatchedFiles' = allMatchedFiles \cup regexMatched
    /\ mresult' = SortSet(allMatchedFiles \cup regexMatched)
    /\ mpc' = "done"
    /\ UNCHANGED <<tree, baseStat, merror, globs, regex, pendingDirs, walkMatched, filesToSearch,
                   nextChunk, inFlight, lastIndex, regexMatched>>
    /\ UNCHANGED notMatchVars

NextMatch ==
    \/ StartFind
    \/ \E d \in {BasePath} \cup {e.path : e \in TreeDirs} : WalkDirectory(d)
    \/ FinishWalk
    \/ StartChunk
    \/ \E f \in {FileA, FileB, FileC, FileD} : CompleteRead(f)
    \/ FinishSearch

SpecMatch == InitMatch /\ [][NextMatch]_vars

-----------------------------------------------------------------------------
(* Properties of the pattern matcher *)

\* the text of the file contains a match of one of the patterns
MatchesAnyRegex(filePath, patterns) ==
    \E i \in 1..Len(patterns) : Contains(tree[filePath], patterns[i])

\* C7: searchFilesByRegex returns exactly the files whose own text contains a
\* match of at least one pattern, whatever other files are searched and
\* whichever files matched before.
C7_RegexPerFile ==
    (mpc = "done" /\ NonEmpty(regex)) =>
        regexMatched = {f \in Range(filesToSearch) :
                           MatchesAnyRegex(f, CompilePatterns(regex[1]))}

\* searchFilesByRegex with the reads completing in the order of the list
RECURSIVE SearchInListOrder(_, _, _, _)
SearchInListOrder(files, patterns, indexes, i) ==
    IF i > Len(files) THEN {}
    ELSE LET t == TestPatterns(patterns, tree[files[i]], indexes, 1) IN
         (IF t.matched THEN {files[i]} ELSE {})
            \cup SearchInListOrder(files, patterns, t.lastIndex, i + 1)

\* C8: the result of findMatchingFiles is the same for every completion order
\* of the concurrent reads and walks: every run returns what the run returns
\* in which the reads complete in the order of the list.
C8_OrderIndependent ==
    (mpc = "done" /\ NonEmpty(regex)) =>
        mresult = SortSet((IF NonEmpty(globs) THEN walkMatched ELSE {}) \cup
                     SearchInListOrder(filesToSearch, CompilePatterns(regex[1]),
                                       [i \in 1..Len(CompilePatterns(regex[1])) |-> 0], 1))

\* C9: when a non-empty regex list is supplied, with or without globs, every
\* path that findMatchingFiles returns has a text matching one of the patterns.
C9_OnlyRegexMatches ==
    (mpc = "done" /\ NonEmpty(regex)) =>
        \A i \in 1..Len(mresult) :
            MatchesAnyRegex(mresult[i], CompilePatterns(regex[1]))

\* C10 as claimed: every file below basePath whose relative path matches a
\* supplied glob is in the result, also below a hidden directory or node_modules.
C10_GlobCompleteEverywhere ==
    (mpc = "done" /\ NonEmpty(globs)) =>
        \A f \in DOMAIN tree :
            MatchesAnyGlob(BasePath, f, globs[1]) => f \in Range(mresult)

\* a directory between basePath and the file is hidden or named node_modules
BelowHiddenOrNodeModules(f) ==
    LET parts == Split(Relative(BasePath, f)) IN
    \E i \in 1..(Len(parts) - 1) :
        parts[i][1] = "." \/ parts[i] = DirNodeModules

\* C10 amended: every file below basePath whose relative path matches a
\* supplied glob is in the result, unless a directory between basePath and
\* the file is hidden (its name starts with ".") or named node_modules.
C10_GlobComplete ==
    (mpc = "done" /\ NonEmpty(globs)) =>
        \A f \in DOMAIN tree :
            (MatchesAnyGlob(BasePath, f, globs[1]) /\ ~BelowHiddenOrNodeModules(f))
                => f \in Range(mresult)

\* a file in a subdirectory that matches the glob is returned, one below a
\* hidden directory that matches it too is not
C10_Witness ==
    /\ mpc = "done"
    /\ NonEmpty(globs)
    /\ {FileB, FileC} \subseteq DOMAIN tree
    /\ MatchesAnyGlob(BasePath, FileB, globs[1])
    /\ MatchesAnyGlob(BasePath, FileC, globs[1])
    /\ FileB \in Range(mresult)
    /\ FileC \notin Range(mresult)

\* C11: the list returned by findMatchingFiles is in ascending order of the
\* default string comparison and contains no path twice, whatever the order
\* in which directories were walked and in which file reads completed.
C11_SortedNoDuplicates ==
    mpc = "done" => (IsSorted(mresult) /\ NoDuplicates(mresult))

\* a call with globs and regex returned two files or more, one of them matched
\* by a glob and by a pattern
C11_Witness ==
    /\ mpc = "done"
    /\ NonEmpty(globs)
    /\ NonEmpty(regex)
    /\ Len(mresult) >= 2
    /\ walkMatched \cap regexMatched # {}

\* C12: on an existing directory, findMatchingFiles with neither globs nor
\* regex (each undefined or the empty list) returns the empty list; on an empty
\* directory with the glob "**/*" it returns the empty list and raises nothing.
C12_NoPatternsNoFiles ==
    /\ (mpc = "done" /\ ~NonEmpty(globs) /\ ~NonEmpty(regex)) =>
           (mresult = <<>> /\ merror = "")
    /\ (/\ mpc \in {"done", "failed"}
        /\ baseStat = "directory"
        /\ DOMAIN tree = {}
        /\ globs = Some(<<GlobAll>>)) =>
           (mpc = "done" /\ mresult = <<>> /\ merror = "")

\* a call with empty lists of globs and regex returned on a directory that
\* holds files
C12_Witness ==
    /\ mpc = "done"
    /\ globs = Some(<<>>)
    /\ regex = Some(<<>>)
    /\ {FileA, FileB} \subseteq DOMAIN tree

\* C14: when basePath does not exist or is not a directory, findMatchingFiles
\* fails with a message that says so and walks no directory, with or without
\* globs and regex.
C14_InvalidBasePathFails ==
    baseStat # "directory" =>
        /\ mpc \in {"start", "failed"}
        /\ pendingDirs = {}
        /\ walkMatched = {}
        /\ mresult = <<>>
        /\ mpc = "failed" =>
              merror = (IF baseStat = "ENOENT" THEN "does not exist"
                        ELSE "is not a directory")

\* the call failed on a basePath that is a file, without globs and regex
C14_Witness ==
    /\ mpc = "failed"
    /\ baseStat = "file"
    /\ globs = None
    /\ regex = None
    /\ merror = "is not a directory"

-----------------------------------------------------------------------------
(* fetchContext: src/tools/fetchContext.ts, with findReferencingFiles and    *)
(* buildMarkdownExplanation (src/unnamed/part_005)                           *)

\* no directory between basePath and the file is skipped by walkDirectory
IsWalked(basePath, fullPath) ==
    LET parts == Split(Relative(basePath, fullPath)) IN
    \A i \in 1..(Len(parts) - 1) : ~IsSkippedDirectory(parts[i])

\* findFilesByGlob(basePath, patterns) as a function of the files below basePath
findFilesByGlob(files, basePath, patterns) ==
    IF patterns = <<>> THEN <<>>
    ELSE SortSet({f \in files : /\ IsWalked(basePath, f)
                                /\ MatchesAnyGlob(basePath, f, patterns)})

\* findMatchingFiles(basePath, globs, undefined): the matches of the globs
findMatchingFilesByGlobs(files, basePath, globPatterns) ==
    IF NonEmpty(globPatterns) THEN findFilesByGlob(files, basePath, globPatterns[1])
    ELSE <<>>

\* the keys of the references map
ReferenceKeys(refs) == {refs[i].file : i \in 1..Len(refs)}

\* mutant: a pass without the check of processed (lines 315-317); a tracked
\* file that imports a tracked file is set again, at the depth of the pass
RECURSIVE ReferencePassRevisits(_, _, _, _, _)
ReferencePassRevisits(refs, found, files, imports, depth) ==
    IF files = <<>> THEN [references |-> refs, found |-> found]
    ELSE LET file == Head(files)
             importedTrackedFiles ==
                 SelectSeq(imports[file], LAMBDA r : r \in ReferenceKeys(refs))
             ref == [file |-> file, imports |-> importedTrackedFiles, depth |-> depth]
         IN  IF importedTrackedFiles = <<>>
             THEN ReferencePassRevisits(refs, found, Tail(files), imports, depth)
             ELSE ReferencePassRevisits(
                      IF file \in ReferenceKeys(refs)
                      THEN [i \in 1..Len(refs) |->
                               IF refs[i].file = file THEN ref ELSE refs[i]]
                      ELSE Append(refs, ref),
                      TRUE, Tail(files), imports, depth)

\* one pass of the while loop of findReferencingFiles over filesToSearch: the
\* references map after it (entries in insertion order), and whether the pass
\* found a file
RECURSIVE ReferencePass(_, _, _, _, _)
ReferencePass(refs, found, files, imports, depth) ==
    IF files = <<>> THEN [references |-> refs, found |-> found]
    ELSE LET file == Head(files)
             importedTrackedFiles ==
                 SelectSeq(imports[file], LAMBDA r : r \in ReferenceKeys(refs))
         IN  IF file \in ReferenceKeys(refs) \/ importedTrackedFiles = <<>>
             THEN ReferencePass(refs, found, Tail(files), imports, depth)
             ELSE ReferencePass(
                      Append(refs, [file |-> file, imports |-> importedTrackedFiles,
                                          depth |-> depth]),
                      TRUE, Tail(files), imports, depth)

\* the loop condition of line 309
LoopContinues(maxDepth, depth) == maxDepth = -1 \/ depth <= maxDepth

\* mutant: without the break of lines 344-346
NeverBreaks(pass) == FALSE

\* lines 344-346: the pass found no file
BreaksAfter(pass) == ~pass.found

\* the while loop of findReferencingFiles from depth on
RECURSIVE ReferenceLoop(_, _, _, _, _)
ReferenceLoop(refs, files, imports, maxDepth, depth) ==
    IF LoopContinues(maxDepth, depth)
    THEN LET pass == ReferencePass(refs, FALSE, files, imports, depth) IN
         IF BreaksAfter(pass) THEN refs
         ELSE ReferenceLoop(pass.references, files, imports, maxDepth, depth + 1)
    ELSE refs

\* findReferencingFiles(targetFiles, projectRoot, maxDepth); files is what
\* findAllSourceFiles(projectRoot) returns, imports the resolved imports
findReferencingFiles(targetFiles, files, imports, maxDepth) ==
    ReferenceLoop([i \in 1..Len(targetFiles) |->
                      [file |-> targetFiles[i], imports |-> <<>>, depth |-> 0]],
                  files, imports, maxDepth, 1)

ReadmePath == Join(BasePath, <<"R", "E", "A", "D", "M", "E", ".", "m", "d">>)

\* the source files of the fetched directory, as findAllSourceFiles lists them
SourceFiles == <<FileA, FileB>>

\* path.basename(targetPath)
TargetDir == Basename(BasePath)

\* singleDirRequest = { ...request, target_directory: targetDir }
SingleDirRequest ==
    [target_directory |-> TargetDir, globs |-> frequest.globs,
     regex |-> frequest.regex, reference_depth |-> frequest.reference_depth]

\* request.reference_depth ?? -1
ReferenceDepth ==
    IF frequest.reference_depth = None THEN -1 ELSE frequest.reference_depth[1]

\* line 80: the condition under which findReferencingFiles is called
CallsFindReferencingFiles(matchedFilePaths) ==
    matchedFilePaths # <<>> /\ ReferenceDepth # 0

\* mutant: the keys of the references map, the matched files included
ReferencingFilePathsWithSeeds(matchedFilePaths) ==
    IF matchedFilePaths # <<>> /\ ReferenceDepth # 0
    THEN LET refs == findReferencingFiles(matchedFilePaths, SourceFiles,
                                          importsOf, ReferenceDepth)
         IN  [i \in 1..Len(refs) |-> refs[i].file]
    ELSE <<>>

\* lines 78-91: the keys of the references map that are no matched file
ReferencingFilePaths(matchedFilePaths) ==
    IF matchedFilePaths # <<>> /\ ReferenceDepth # 0
    THEN LET refs == findReferencingFiles(matchedFilePaths, SourceFiles,
                                          importsOf, ReferenceDepth)
             keys == [i \in 1..Len(refs) |-> refs[i].file]
         IN  SelectSeq(keys, LAMBDA f : f \notin Range(matchedFilePaths))
    ELSE <<>>

\* what a read of the file yields: its path and the modification time of the
\* version that is read
ReadFile(path) == [path |-> path, mtimeMs |-> StatOrZero(fsStat, path)]

InitFetch ==
    /\ IdleTorn
    /\ IdleRest
    /\ op = NoOp /\ saves = {} /\ clean = FALSE /\ damaged = 0
    /\ cacheDir = EmptyDir
    /\ mpc = "idle" /\ pendingDirs = {} /\ walkMatched = {} /\ allMatchedFiles = {}
    /\ baseStat = "directory" /\ merror = ""
    /\ filesToSearch = <<>> /\ nextChunk = 1 /\ inFlight = {} /\ lastIndex = <<>>
    /\ regexMatched = {} /\ mresult = <<>> /\ globs = None /\ regex = None
    /\ \E readme \in SUBSET {ReadmePath} :
         /\ tree = [f \in {FileA, FileB} \cup readme |-> <<"x">>]
         /\ fsStat = [f \in {FileA, FileB} \cup readme |->
                         [exists |-> TRUE, mtimeMs |-> 1]]
    /\ frequest \in [globs : {Some(<<GlobTs>>), Some(<<GlobJs>>),
                              Some(<< <<"s", "/", "*">> >>), Some(<<GlobAll>>)},
                     regex : {None},
                     reference_depth : {None, Some(0)}]
    /\ importsOf \in {[f \in {FileA, FileB} |-> <<>>],
                      [f \in {FileA, FileB} |-> IF f = FileB THEN <<FileA>> ELSE <<>>],
                      [f \in {FileA, FileB} |-> IF f = FileA THEN <<FileB>> ELSE <<>>]}
    /\ fpc = "start"
    /\ fetches = 1
    /\ fMatched = <<>>
    /\ fReferencing = <<>>
    /\ fAllFiles = <<>>
    /\ fExtracted = <<>>
    /\ fMarkdown = <<>>
    /\ fresult = NoResult
    /\ fCalls = <<>>

\* a step of the loop body of fetchContext: the function called (or the
\* list computed), the request descriptor and the file list it works on
Call(name, request, files) == [call |-> name, request |-> request, files |-> files]

\* lines 60-102: the matched and the referencing files, and the cache lookup
\* (generateCacheKey sorts the array allFiles in place)
FetchStart ==
    /\ fpc = "start"
    /\ LET matchedFilePaths ==
               findMatchingFilesByGlobs(DOMAIN tree, BasePath, frequest.globs)
           referencingFilePaths == ReferencingFilePaths(matchedFilePaths)
           allFiles == matchedFilePaths \o referencingFilePaths
           cachedResult == getCachedResult(cacheDir, fsStat, SingleDirRequest, allFiles)
           lookup == <<Call("findMatchingFiles", None, matchedFilePaths)>>
                     \o (IF CallsFindReferencingFiles(matchedFilePaths)
                         THEN <<Call("findReferencingFiles", None, matchedFilePaths)>>
                         ELSE <<>>)
                     \o <<Call("referencingFilePaths", None, referencingFilePaths),
                          Call("getCachedResult", Some(SingleDirRequest), allFiles)>>
       IN  IF matchedFilePaths = <<>> /\ (NonEmpty(frequest.globs) \/ NonEmpty(frequest.regex))
           THEN /\ fresult' = [kind |-> "nofiles", content |-> <<>>]
                /\ fpc' = "done"
                /\ fCalls' = <<Call("findMatchingFiles", None, matchedFilePaths)>>
                /\ UNCHANGED <<fMatched, fReferencing, fAllFiles>>
           ELSE IF cachedResult.status = "content"
           THEN /\ fresult' = [kind |-> "cached", content |-> cachedResult.content]
                /\ fpc' = "done"
                /\ fCalls' = lookup
                /\ UNCHANGED <<fMatched, fReferencing, fAllFiles>>
           ELSE /\ fpc' = "extract"
                /\ fMatched' = matchedFilePaths
                /\ fReferencing' = referencingFilePaths
                /\ fAllFiles' = Sort(allFiles)
                /\ fresult' = NoResult
                /\ fCalls' = lookup
    /\ UNCHANGED <<frequest, importsOf, fetches, fExtracted, fMarkdown>>
    /\ UNCHANGED <<cacheVars, tornVars, matchVars, restVars>>

\* lines 104-118: extractCodeFromFile reads the matched and the referencing files
FetchExtract ==
    /\ fpc = "extract"
    /\ fExtracted' = [i \in 1..Len(fMatched \o fReferencing) |->
                         ReadFile((fMatched \o fReferencing)[i])]
    /\ fCalls' = fCalls \o [i \in 1..Len(fMatched \o fReferencing) |->
                                Call("extractCodeFromFile", None,
                                     <<(fMatched \o fReferencing)[i]>>)]
    /\ fpc' = "build"
    /\ UNCHANGED <<frequest, importsOf, fetches, fMatched, fReferencing, fAllFiles,
                   fMarkdown, fresult>>
    /\ UNCHANGED <<cacheVars, tornVars, matchVars, restVars>>

\* lines 120-141: the README is looked for, buildMarkdownExplanation reads it
\* into the Overview section and appends the sections of the files
FetchBuild ==
    /\ fpc = "build"
    /\ fMarkdown' = (IF ReadmePath \in DOMAIN fsStat /\ fsStat[ReadmePath].exists
                     THEN <<ReadFile(ReadmePath)>> ELSE <<>>) \o fExtracted
    /\ fCalls' = Append(fCalls, Call("buildMarkdownExplanation", None,
                                      fMatched \o fReferencing))
    /\ fpc' = "save"
    /\ UNCHANGED <<frequest, importsOf, fetches, fMatched, fReferencing, fAllFiles,
                   fExtracted, fresult>>
    /\ UNCHANGED <<cacheVars, tornVars, matchVars, restVars>>

\* lines 143-146: saveToCache with the array allFiles, then results.push
FetchSave ==
    /\ fpc = "save"
    /\ cacheDir' = saveToCache(cacheDir, fsStat, SingleDirRequest, fAllFiles, fMarkdown)
    /\ fresult' = [kind |-> "generated", content |-> fMarkdown]
    /\ fCalls' = Append(fCalls, Call("saveToCache", Some(SingleDirRequest), fAllFiles))
    /\ fpc' = "done"
    /\ UNCHANGED <<frequest, importsOf, fetches, fMatched, fReferencing, fAllFiles,
                   fExtracted, fMarkdown>>
    /\ UNCHANGED <<fsStat, op, saves, clean, damaged, tree>>
    /\ UNCHANGED <<restVars, tornVars, baseStat, merror, globs, regex, mpc, pendingDirs, walkMatched,
                   allMatchedFiles, filesToSearch, nextChunk, inFlight, lastIndex,
                   regexMatched, mresult>>

\* the same request is made again
FetchAgain ==
    /\ fpc = "done"
    /\ fetches < MaxFetches
    /\ fetches' = fetches + 1
    /\ fCalls' = <<>>
    /\ fpc' = "start"
    /\ UNCHANGED <<frequest, importsOf, fMatched, fReferencing, fAllFiles,
                   fExtracted, fMarkdown, fresult>>
    /\ UNCHANGED <<cacheVars, tornVars, matchVars, restVars>>

\* a file of the directory (the README included) is written before a call or
\* between two calls: its modification time moves on
ModifyFile ==
    /\ fpc = "start"
    /\ \E f \in DOMAIN fsStat :
         /\ fsStat[f].mtimeMs < MaxFetchTime
         /\ fsStat' = [fsStat EXCEPT ![f].mtimeMs = @ + 1]
    /\ UNCHANGED <<cacheDir, op, saves, clean, damaged>>
    /\ UNCHANGED <<tornVars, matchVars, fetchVars, restVars>>

NextFetch ==
    \/ FetchStart
    \/ FetchExtract
    \/ FetchBuild
    \/ FetchSave
    \/ FetchAgain
    \/ ModifyFile

SpecFetch == InitFetch /\ [][NextFetch]_vars

\* C3: fetchContext returns a cached payload only if every file that was read
\* to build it (matched files, referencing files, the README of the Overview
\* section) still has the modification time it had when it was read; a README
\* modified after the store makes the next identical request regenerate.
C3_HitOnlyIfNothingReadChanged ==
    (fpc = "done" /\ fresult.kind = "cached") =>
        \A i \in 1..Len(fresult.content) :
            StatOrZero(fsStat, fresult.content[i].path) = fresult.content[i].mtimeMs

-----------------------------------------------------------------------------
(* Invalid patterns in findMatchingFiles *)

\* the orders in which the elements of the array can be taken
Orders(array) ==
    {order \in [1..Len(array) -> Range(array)] :
        \A i, j \in 1..Len(array) : i # j => order[i] # order[j]}

\* the list without the patterns that are invalid
ValidGlobs(list) ==
    IF list = None THEN None
    ELSE Some(SelectSeq(list[1], LAMBDA pattern : ~MinimatchThrows(pattern)))

ValidRegex(list) == IF list = None THEN None ELSE Some(CompilePatterns(list[1]))

\* what findMatchingFiles(basePath, globList, regexList) can return on the
\* tree for lists of valid patterns, one result per completion order of the
\* reads
ResultsOf(globList, regexList) ==
    LET globMatches == findMatchingFilesByGlobs(DOMAIN tree, BasePath, globList)
        files == IF NonEmpty(globList) THEN globMatches
                 ELSE findFilesByGlob(DOMAIN tree, BasePath, <<GlobAll>>)
    IN  IF NonEmpty(regexList)
        THEN {SortSet(Range(globMatches) \cup
                      SearchInListOrder(order, regexList[1],
                                        [i \in 1..Len(regexList[1]) |-> 0], 1)) :
                 order \in Orders(files)}
        ELSE {globMatches}

\* C13 as claimed: findMatchingFiles raises nothing for invalid patterns and
\* returns what it returns for the valid patterns alone.
C13_InvalidPatternsSkippedAlways ==
    (mpc \in {"done", "failed"} /\ baseStat = "directory") =>
        /\ mpc = "done"
        /\ merror = ""
        /\ mresult \in ResultsOf(ValidGlobs(globs), ValidRegex(regex))

\* globs are given and none of them is valid, and regex patterns are given
OnlyInvalidGlobsWithRegex ==
    /\ NonEmpty(globs)
    /\ ~NonEmpty(ValidGlobs(globs))
    /\ NonEmpty(regex)

\* C13 amended: findMatchingFiles raises nothing for invalid patterns; it
\* returns what it returns for the valid patterns alone, unless globs are given
\* that are all invalid together with regex patterns: then the content search
\* is restricted to the empty set of glob matches and the result is empty.
C13_InvalidPatternsSkipped ==
    (mpc \in {"done", "failed"} /\ baseStat = "directory") =>
        /\ mpc = "done"
        /\ merror = ""
        /\ IF OnlyInvalidGlobsWithRegex THEN mresult = <<>>
           ELSE mresult \in ResultsOf(ValidGlobs(globs), ValidRegex(regex))

\* a call with an invalid and a valid glob and an invalid and a valid regex
\* returned files
C13_Witness ==
    /\ mpc = "done"
    /\ globs = Some(<<GlobTooLong, GlobAll>>)
    /\ regex = Some(<< <<"(">>, <<"x">> >>)
    /\ regexMatched # {}
    /\ Len(mresult) >= 2

-----------------------------------------------------------------------------
(* findReferencingFiles as a process: src/unnamed/part_005, lines 291-353    *)

FileE == Join(Join(BasePath, DirSrc), <<"e", ".", "t", "s">>)

DirBuild == <<"b", "u", "i", "l", "d">>

\* mutant: findAllSourceFiles descends into every directory
IsSkippedSourceDirectoryNever(name) == FALSE

\* findAllSourceFiles does not descend into hidden directories, node_modules
\* and build (lines 396-401)
IsSkippedSourceDirectory(name) ==
    StartsWithDot(name) \/ name = DirNodeModules \/ name = DirBuild

\* isSourceFile for the extensions of the model
IsSourceFile(name) ==
    /\ Len(name) >= 3
    /\ SubSeq(name, Len(name) - 2, Len(name)) = <<".", "t", "s">>

\* the walk of findAllSourceFiles reaches the file and lists it
IsListedSource(projectRoot, fullPath) ==
    LET parts == Split(Relative(projectRoot, fullPath)) IN
    /\ \A i \in 1..(Len(parts) - 1) : ~IsSkippedSourceDirectory(parts[i])
    /\ IsSourceFile(parts[Len(parts)])

\* the files under projectRoot
ProjectFiles == {FileA, FileB, FileE, FileC}

\* the orders in which the sequential walk of findAllSourceFiles can meet the
\* files: the order of readdir is not fixed, the files of a directory are met
\* together
WalkOrders ==
    {order \in Orders(<<FileA, FileB, FileE, FileC>>) :
        \E i \in 1..3 : {order[i], order[i + 1]} = {FileB, FileE}}

\* findAllSourceFiles(projectRoot) for a walk that meets the files in the order
findAllSourceFiles(projectRoot, order) ==
    SelectSeq(order, LAMBDA f : IsListedSource(projectRoot, f))

\* the import graphs of the model: every file imports some of the other files
ImportGraphs ==
    {graph \in [ProjectFiles -> {SortSet(S) : S \in SUBSET {FileA, FileB, FileE}}] :
        /\ \A f \in ProjectFiles : f \notin Range(graph[f])
        /\ graph[FileC] \in {<<>>, <<FileA>>}}

InitRefs ==
    /\ IdleCache
    /\ fsStat = [f \in CacheFiles |-> [exists |-> TRUE, mtimeMs |-> 1]]
    /\ IdleTorn
    /\ IdleMatch
    /\ IdleFetch
    /\ IdleExtract
    /\ IdleMore
    /\ rTargets \in {<<FileA>>, <<FileA, FileB>>}
    /\ rMaxDepth \in {-1, 1, 2}
    /\ rFiles \in {findAllSourceFiles(BasePath, order) : order \in WalkOrders}
    /\ rImports \in ImportGraphs
    /\ references = <<>>
    /\ currentDepth = 1
    /\ passes = 0
    /\ refpc = "start"

\* lines 296-307: the targets enter the map at depth 0
StartRefs ==
    /\ refpc = "start"
    /\ references' = [i \in 1..Len(rTargets) |->
                         [file |-> rTargets[i], imports |-> <<>>, depth |-> 0]]
    /\ currentDepth' = 1
    /\ refpc' = "loop"
    /\ UNCHANGED <<rTargets, rMaxDepth, rFiles, rImports, passes>>
    /\ UNCHANGED notRefVars

\* lines 309-350: one pass of the while loop over the source files
RunPass ==
    /\ refpc = "loop"
    /\ LoopContinues(rMaxDepth, currentDepth)
    /\ passes < MaxPasses
    /\ LET pass == ReferencePass(references, FALSE, rFiles, rImports, currentDepth) IN
         /\ references' = pass.references
         /\ IF BreaksAfter(pass)
            THEN refpc' = "done" /\ UNCHANGED currentDepth
            ELSE currentDepth' = currentDepth + 1 /\ UNCHANGED refpc
    /\ passes' = passes + 1
    /\ UNCHANGED <<rTargets, rMaxDepth, rFiles, rImports>>
    /\ UNCHANGED notRefVars

\* lines 309, 352: the loop condition fails, the map is returned
ReturnReferences ==
    /\ refpc = "loop"
    /\ ~LoopContinues(rMaxDepth, currentDepth)
    /\ refpc' = "done"
    /\ UNCHANGED <<rTargets, rMaxDepth, rFiles, rImports, references, currentDepth, passes>>
    /\ UNCHANGED notRefVars

NextRefs ==
    \/ StartRefs
    \/ RunPass
    \/ ReturnReferences

\* the call runs on: every await of the function resolves
SpecRefs == InitRefs /\ [][NextRefs]_vars /\ WF_vars(NextRefs)

-----------------------------------------------------------------------------
(* Properties of findReferencingFiles *)

\* the targets and the files among `files` from which a target is reached
\* through at most k imports, every file on the way being one of `files`
RECURSIVE Within(_, _)
Within(files, k) ==
    IF k = 0 THEN Range(rTargets)
    ELSE LET nearer == Within(files, k - 1) IN
         nearer \cup {f \in files : Range(rImports[f]) \cap nearer # {}}

\* the breadth-first distance of a tracked file to the targets in the import
\* graph of the listed source files
Distance(f) ==
    CHOOSE k \in 0..Len(rFiles) :
        /\ f \in Within(Range(rFiles), k)
        /\ k = 0 \/ f \notin Within(Range(rFiles), k - 1)

\* C15: in the map that findReferencingFiles returns, the depth of every file
\* is its breadth-first distance to the targets, whatever the order in which
\* the source files are enumerated.
C15_DepthIsDistance ==
    refpc = "done" =>
        \A i \in 1..Len(references) :
            references[i].depth = Distance(references[i].file)

\* C16: with maxDepth = k >= 1, findReferencingFiles returns no file whose
\* shortest import chain to a target is longer than k, whatever the order in
\* which the source files are enumerated.
C16_DepthBound ==
    (refpc = "done" /\ rMaxDepth >= 1) =>
        \A i \in 1..Len(references) : Distance(references[i].file) <= rMaxDepth

\* C17 as claimed: with maxDepth = -1 the keys of the returned map are the
\* targets and every source file under projectRoot from which a target is
\* reachable through resolved imports.
C17_ReachableEverywhere ==
    (refpc = "done" /\ rMaxDepth = -1) =>
        ReferenceKeys(references) = Within(ProjectFiles, Cardinality(ProjectFiles))

\* a directory between projectRoot and the file is hidden or named
\* node_modules or build
BelowSkippedSourceDirectory(f) ==
    LET parts == Split(Relative(BasePath, f)) IN
    \E i \in 1..(Len(parts) - 1) :
        parts[i][1] = "." \/ parts[i] = DirNodeModules \/ parts[i] = DirBuild

\* C17 amended: with maxDepth = -1 the keys of the returned map are the
\* targets and every source file under projectRoot, not below a hidden
\* directory, node_modules or build, from which a target is reachable through
\* resolved imports over such files.
C17_Reachable ==
    (refpc = "done" /\ rMaxDepth = -1) =>
        LET listed == {f \in ProjectFiles : ~BelowSkippedSourceDirectory(f)} IN
        ReferenceKeys(references) = Within(listed, Cardinality(listed))

\* the call returned a file that reaches the target over another file, and
\* not the file below a hidden directory that imports the target
C17_Witness ==
    /\ refpc = "done"
    /\ rMaxDepth = -1
    /\ rTargets = <<FileA>>
    /\ rImports[FileB] = <<FileA>>
    /\ rImports[FileE] = <<FileB>>
    /\ rImports[FileC] = <<FileA>>
    /\ ReferenceKeys(references) = {FileA, FileB, FileE}

\* C18: findReferencingFiles returns for every set of source files and every
\* import graph, cyclic ones and maxDepth = -1 included, after at most (number
\* of source files + 1) passes.
C18_Terminates ==
    /\ [](passes <= Len(rFiles) + 1)
    /\ <>(refpc = "done")

\* the call returned after three passes on a cyclic import graph, without a
\* depth limit
C18_Witness ==
    /\ refpc = "done"
    /\ rMaxDepth = -1
    /\ passes = 3
    /\ FileB \in Range(rImports[FileA])
    /\ FileA \in Range(rImports[FileB])

-----------------------------------------------------------------------------
(* Code extractor: src/utils/codeExtractor.ts. A line is a sequence of       *)
(* characters, a file content the sequence of its lines (content.split).     *)

\* \s of a regular expression and the white space of String.prototype.trim
IsSpace(c) == c \in {" ", "\t", "\n"}

\* \w of a regular expression
IsWordChar(c) ==
    c \in {"a", "b", "c", "d", "e", "f", "g", "h", "i", "j", "k", "l", "m", "n", "o", "p", "q", "r", "s", "t", "u", "v", "w", "x", "y", "z",
           "A", "B", "C", "D", "E", "F", "G", "H", "I", "J", "K", "L", "M", "N", "O", "P", "Q", "R", "S", "T", "U", "V", "W", "X", "Y", "Z",
           "0", "1", "2", "3", "4", "5", "6", "7", "8", "9", "_"}

\* [\w<>\[\]?] of methodPattern and getterPattern
IsTypeChar(c) == IsWordChar(c) \/ c \in {"<", ">", "[", "]", "?"}

\* the length of the longest prefix of white space of text
RECURSIVE SpaceRun(_)
SpaceRun(text) ==
    IF text # <<>> /\ IsSpace(Head(text)) THEN 1 + SpaceRun(Tail(text)) ELSE 0

\* the length of the longest prefix of text made of \w characters
RECURSIVE WordRun(_)
WordRun(text) ==
    IF text # <<>> /\ IsWordChar(Head(text)) THEN 1 + WordRun(Tail(text)) ELSE 0

\* the length of the longest prefix of text made of [\w<>\[\]?] characters
RECURSIVE TypeRun(_)
TypeRun(text) ==
    IF text # <<>> /\ IsTypeChar(Head(text)) THEN 1 + TypeRun(Tail(text)) ELSE 0

\* text without its first n characters
Drop(text, n) == SubSeq(text, n + 1, Len(text))

\* text.trimStart()
TrimStart(text) == Drop(text, SpaceRun(text))

\* the reversed text
Reverse(text) == [k \in 1..Len(text) |-> text[Len(text) + 1 - k]]

\* text.trim()
Trim(text) == Reverse(TrimStart(Reverse(TrimStart(text))))

\* text.startsWith(prefix)
StartsWith(text, prefix) ==
    Len(prefix) <= Len(text) /\ SubSeq(text, 1, Len(prefix)) = prefix

\* text.endsWith(suffix)
EndsWith(text, suffix) == StartsWith(Reverse(text), Reverse(suffix))

\* text.includes(c) for a character c
Includes(text, c) == c \in Range(text)

\* (text.match(/c/g) || []).length for a character c
CountOf(text, c) == Cardinality({k \in 1..Len(text) : text[k] = c})

\* text.indexOf(c) for a character c, 0-based, -1 when c does not occur
IndexOf(text, c) ==
    IF Includes(text, c)
    THEN (CHOOSE k \in 1..Len(text) :
              text[k] = c /\ \A m \in 1..(k - 1) : text[m] # c) - 1
    ELSE -1

\* text.replace(/\s+/g, ' ')
RECURSIVE CollapseSpaces(_)
CollapseSpaces(text) ==
    IF text = <<>> THEN <<>>
    ELSE IF IsSpace(Head(text))
         THEN <<" ">> \o CollapseSpaces(TrimStart(text))
         ELSE <<Head(text)>> \o CollapseSpaces(Tail(text))

\* array.join('\n')
RECURSIVE JoinLines(_)
JoinLines(array) ==
    IF array = <<>> THEN <<>>
    ELSE IF Len(array) = 1 THEN array[1]
    ELSE array[1] \o <<"\n">> \o JoinLines(Tail(array))

\* the keyword at the start of text followed by white space (keyword\s+):
\* the text behind them, None when text does not start so
AfterKeyword(text, keyword) ==
    IF StartsWith(text, keyword) /\ SpaceRun(Drop(text, Len(keyword))) >= 1
    THEN Some(TrimStart(Drop(text, Len(keyword))))
    ELSE None

\* (\w+) at the start of text: the word, <<>> when there is none
Word(text) == SubSeq(text, 1, WordRun(text))

\* the text behind the white space at the start of text begins with one of
\* the characters
NextIsOneOf(text, characters) ==
    TrimStart(text) # <<>> /\ Head(TrimStart(text)) \in characters

\* classPattern, /^(abstract\s+)?(class|mixin|enum|extension)\s+(\w+)/: the
\* name (group 3) when the text matches, None otherwise
ClassMatch(text) ==
    LET rest == IF AfterKeyword(text, <<"a", "b", "s", "t", "r", "a", "c", "t">>) # None
                THEN AfterKeyword(text, <<"a", "b", "s", "t", "r", "a", "c", "t">>)[1] ELSE text
        keywords == {<<"c", "l", "a", "s", "s">>, <<"m", "i", "x", "i", "n">>, <<"e", "n", "u", "m">>, <<"e", "x", "t", "e", "n", "s", "i", "o", "n">>}
        matching == {k \in keywords : /\ AfterKeyword(rest, k) # None
                                      /\ Word(AfterKeyword(rest, k)[1]) # <<>>}
    IN  IF matching = {} THEN None
        ELSE Some(Word(AfterKeyword(rest, CHOOSE k \in matching : TRUE)[1]))

\* (static\s+|final\s+|const\s+|late\s+)* of methodPattern: the texts that can
\* remain behind the modifiers
RECURSIVE AfterModifiers(_)
AfterModifiers(text) ==
    {text} \cup UNION {AfterModifiers(AfterKeyword(text, m)[1]) :
                          m \in {k \in {<<"s", "t", "a", "t", "i", "c">>, <<"f", "i", "n", "a", "l">>, <<"c", "o", "n", "s", "t">>, <<"l", "a", "t", "e">>} :
                                    AfterKeyword(text, k) # None}}

\* ([\w<>\[\]?]+\s+)? : the texts that can remain behind the optional type
AfterType(text) ==
    {text} \cup
    (IF TypeRun(text) >= 1 /\ SpaceRun(Drop(text, TypeRun(text))) >= 1
     THEN {TrimStart(Drop(text, TypeRun(text)))} ELSE {})

\* (get\s+|set\s+)? : the texts that can remain behind the optional keyword
AfterGetSet(text) ==
    {text} \cup {AfterKeyword(text, k)[1] :
                    k \in {g \in {<<"g", "e", "t">>, <<"s", "e", "t">>} : AfterKeyword(text, g) # None}}

\* (\w+)\s*X at the start of text, X one of the characters
NameBefore(text, characters) ==
    WordRun(text) >= 1 /\ NextIsOneOf(Drop(text, WordRun(text)), characters)

\* methodPattern: the name (group 4) when the text matches, None otherwise
MethodMatch(text) ==
    LET starts == UNION {AfterGetSet(t) :
                     t \in UNION {AfterType(m) : m \in AfterModifiers(TrimStart(text))}}
        names == {Word(t) : t \in {u \in starts : NameBefore(u, {"("})}}
    IN  IF names = {} THEN None ELSE Some(CHOOSE n \in names : TRUE)

\* getterPattern, /^\s*([\w<>\[\]?]+\s+)?get\s+(\w+)\s*[{=>]/: the name
\* (group 2) when the text matches, None otherwise
GetterMatch(text) ==
    LET names == {Word(AfterKeyword(t, <<"g", "e", "t">>)[1]) :
                     t \in {u \in AfterType(TrimStart(text)) :
                               /\ AfterKeyword(u, <<"g", "e", "t">>) # None
                               /\ NameBefore(AfterKeyword(u, <<"g", "e", "t">>)[1], {"{", "=", ">"})}}
    IN  IF names = {} THEN None ELSE Some(CHOOSE n \in names : TRUE)

\* setterPattern, /^\s*set\s+(\w+)\s*\(/: the name when the text matches
SetterMatch(text) ==
    LET t == TrimStart(text) IN
    IF AfterKeyword(t, <<"s", "e", "t">>) # None /\ NameBefore(AfterKeyword(t, <<"s", "e", "t">>)[1], {"("})
    THEN Some(Word(AfterKeyword(t, <<"s", "e", "t">>)[1])) ELSE None

\* lines 211-218: the constructor name when the text matches
\* ^className\s*\( or constructorPattern, None otherwise
ConstructorMatch(text, className) ==
    LET t == TrimStart(text)
        behindDot == TrimStart(Drop(TrimStart(Drop(t, WordRun(t))), 1))
    IN  IF StartsWith(text, className) /\ NextIsOneOf(Drop(text, Len(className)), {"("})
        THEN Some(className)
        ELSE IF /\ WordRun(t) >= 1
                /\ NextIsOneOf(Drop(t, WordRun(t)), {"."})
                /\ NameBefore(behindDot, {"("})
             THEN Some(Word(behindDot))
             ELSE None

\* lines 210-267: the name of the method that the trimmed line declares, None
\* when the line matches none of the patterns
MethodNameOf(text, className) ==
    IF ConstructorMatch(text, className) # None THEN ConstructorMatch(text, className)
    ELSE IF GetterMatch(text) # None THEN Some(<<"g", "e", "t", " ">> \o GetterMatch(text)[1])
    ELSE IF SetterMatch(text) # None THEN Some(<<"s", "e", "t", " ">> \o SetterMatch(text)[1])
    ELSE MethodMatch(text)

\* the counters of extractCompleteSignature before the first character
NoneOpen ==
    [openBraces |-> 0, openParens |-> 0, openBrackets |-> 0,
     inString |-> FALSE, stringChar |-> ""]

\* the body of the character loops of lines 48-69 and 91-112 for one
\* character of the line
ScanChar(st, char, line) ==
    IF ~st.inString
    THEN IF char \in {"\"", "'"} THEN [st EXCEPT !.inString = TRUE, !.stringChar = char]
         ELSE IF char = "{" THEN [st EXCEPT !.openBraces = @ + 1]
         ELSE IF char = "}" THEN [st EXCEPT !.openBraces = @ - 1]
         ELSE IF char = "(" THEN [st EXCEPT !.openParens = @ + 1]
         ELSE IF char = ")" THEN [st EXCEPT !.openParens = @ - 1]
         ELSE IF char = "[" THEN [st EXCEPT !.openBrackets = @ + 1]
         ELSE IF char = "]" THEN [st EXCEPT !.openBrackets = @ - 1]
         ELSE st
    ELSE IF /\ char = st.stringChar
            /\ (IndexOf(line, char) = 0 \/ line[IndexOf(line, char)] # "\\")
         THEN [st EXCEPT !.inString = FALSE]
         ELSE st

\* the character loop over the line from its k-th character on
RECURSIVE ScanFrom(_, _, _)
ScanFrom(st, line, k) ==
    IF k > Len(line) THEN st ELSE ScanFrom(ScanChar(st, line[k], line), line, k + 1)

\* the condition of the while loop of lines 72-82 without its bound on index
SignatureIsOpen(st, signature) ==
    \/ st.openBraces > 0
    \/ st.openParens > 0
    \/ st.openBrackets > 0
    \/ st.inString
    \/ EndsWith(Trim(signature), <<",">>)
    \/ EndsWith(Trim(signature), <<"=", ">">>)

\* the while loop of lines 72-124; index is 0-based
RECURSIVE SignatureLoop(_, _, _, _)
SignatureLoop(fileLines, signature, st, index) ==
    IF SignatureIsOpen(st, signature) /\ index < Len(fileLines) - 1
    THEN LET nextLine == fileLines[index + 2]
             scanned == ScanFrom(st, nextLine, 1)
             longer == signature \o <<" ">> \o Trim(nextLine)
         IN  IF nextLine = <<>> THEN SignatureLoop(fileLines, signature, st, index + 1)
             ELSE IF /\ scanned.openBraces = 0
                     /\ scanned.openParens = 0
                     /\ scanned.openBrackets = 0
                     /\ ~scanned.inString
                     /\ (Includes(nextLine, "{") \/ Includes(nextLine, ";"))
                  THEN longer
                  ELSE SignatureLoop(fileLines, longer, scanned, index + 1)
    ELSE signature

\* extractCompleteSignature(lines, startIndex), startIndex 0-based
extractCompleteSignature(fileLines, startIndex) ==
    LET first == fileLines[startIndex + 1] IN
    Trim(CollapseSpaces(
        SignatureLoop(fileLines, first, ScanFrom(NoneOpen, first, 1), startIndex)))

\* lines 168-183 of extractClasses: the search for the line with the opening
\* brace from line j on (0-based); braceCount is the count after that line
RECURSIVE FindOpeningBrace(_, _)
FindOpeningBrace(fileLines, j) ==
    IF j >= Len(fileLines) THEN [classStarted |-> FALSE, j |-> j, braceCount |-> 0]
    ELSE LET currentLine == fileLines[j + 1] IN
         IF currentLine # <<>> /\ Includes(currentLine, "{")
         THEN [classStarted |-> TRUE, j |-> j,
               braceCount |-> CountOf(currentLine, "{") - CountOf(currentLine, "}")]
         ELSE FindOpeningBrace(fileLines, j + 1)

\* the return value of extractDocumentation for the collected docLines
DocumentationOf(collected) ==
    IF collected # <<>> THEN Some(JoinLines(collected)) ELSE None

\* the lines of the file contents of the model
OneLineClass == <<"c", "l", "a", "s", "s", " ", "F", "o", "o", " ", "{", " ", "b", "a", "r", "(", ")", " ", "{", "}", " ", "}">>
ClassOpen == <<"c", "l", "a", "s", "s", " ", "F", "o", "o", " ", "{">>
MethodLine == <<" ", " ", "b", "a", "r", "(", ")", " ", "{", "}">>
CloseBrace == <<"}">>
DocLine == <<"/", "/", "/", " ", "d">>
EmptyLine == <<>>
GetterLine == <<" ", " ", "i", "n", "t", " ", "g", "e", "t", " ", "x", " ", "=", ">", " ", "1", ";">>
OpenCall == <<"f", "(", "\"">>

ExtractLines ==
    {OneLineClass, ClassOpen, MethodLine, CloseBrace, DocLine, EmptyLine, GetterLine,
     OpenCall}

\* a class declaration whose header spans three lines
ClassHead == <<"c", "l", "a", "s", "s", " ", "F", "o", "o">>
ExtendsLine == <<"e", "x", "t", "e", "n", "d", "s", " ", "B", "a", "r">>
ImplementsLine == <<"i", "m", "p", "l", "e", "m", "e", "n", "t", "s", " ", "B", "a", "z", " ", "{">>
HeaderContent == <<ClassHead, ExtendsLine, ImplementsLine, CloseBrace>>

\* a class declaration below a one-line documentation comment in another style
JsDocLine == <<"/", "*", "*", " ", "d", " ", "*", "/">>
HashLine == <<"#", " ", "d">>
JsDocContent == <<JsDocLine, ClassOpen, CloseBrace>>
HashContent == <<HashLine, ClassOpen, CloseBrace>>

\* a class whose opening brace is on a line of its own
OpenBrace == <<"{">>
BraceLineContent == <<ClassHead, OpenBrace, MethodLine, CloseBrace>>

\* a top-level function with a call statement in its body
FunctionOpen == <<"v", "o", "i", "d", " ", "f", "(", ")", " ", "{">>
CallStatement == <<" ", " ", "p", "r", "i", "n", "t", "(", "x", ")", ";">>
FunctionBodyContent == <<FunctionOpen, CallStatement, CloseBrace>>

\* a class with a brace in a comment of its body, followed by a top-level
\* function
CommentBraceLine == <<" ", " ", "/", "/", " ", "{">>
TopLevelFunction == <<"b", "a", "z", "(", ")", " ", "{", "}">>
CommentBraceContent == <<ClassOpen, CommentBraceLine, CloseBrace, TopLevelFunction>>

\* content.split('\n') of the file contents of the model
Contents ==
    UNION {[1..n -> ExtractLines] : n \in 1..MaxLines}
        \cup {HeaderContent, JsDocContent, HashContent, BraceLineContent,
              FunctionBodyContent, CommentBraceContent}

\* the words whose presence on a line opens a class body in removeClassBodies
ClassWords == {<<"c", "l", "a", "s", "s", " ">>, <<"e", "n", "u", "m", " ">>, <<"m", "i", "x", "i", "n", " ">>, <<"e", "x", "t", "e", "n", "s", "i", "o", "n", " ">>}

\* the loop of removeClassBodies from line k (1-based) on: the cleaned lines
\* k.. of the content
RECURSIVE CleanFrom(_, _, _, _)
CleanFrom(fileLines, k, inClass, count) ==
    IF k > Len(fileLines) THEN <<>>
    ELSE LET line == fileLines[k]
             entered == inClass \/ \E w \in ClassWords : Contains(Trim(line), w)
             after == count + CountOf(line, "{") - CountOf(line, "}")
         IN  IF line = <<>> THEN <<line>> \o CleanFrom(fileLines, k + 1, inClass, count)
             ELSE IF entered
                  THEN <<IF after > 0 THEN <<>> ELSE line>>
                           \o CleanFrom(fileLines, k + 1, after # 0, after)
                  ELSE <<line>> \o CleanFrom(fileLines, k + 1, FALSE, count)

\* removeClassBodies(lines)
removeClassBodies(fileLines) == CleanFrom(fileLines, 1, FALSE, 0)

\* lines 309-323 of extractFunctions: the trimmed line is skipped
IsSkippedLine(trimmedLine) ==
    \/ trimmedLine = <<>>
    \/ \E prefix \in {<<"/", "/">>, <<"i", "m", "p", "o", "r", "t">>, <<"e", "x", "p", "o", "r", "t">>, <<"p", "a", "r", "t">>, <<"l", "i", "b", "r", "a", "r", "y">>, <<"t", "y", "p", "e", "d", "e", "f">>, <<"c", "o", "n", "s", "t", " ">>, <<"f", "i", "n", "a", "l", " ">>, <<"v", "a", "r", " ">>} : StartsWith(trimmedLine, prefix)
    \/ \E w \in {<<"c", "l", "a", "s", "s", " ">>, <<"e", "n", "u", "m", " ">>, <<"m", "i", "x", "i", "n", " ">>} : Contains(trimmedLine, w)

\* functionPattern, /^([\w<>[\]?]+\s+)?(\w+)\s*\(/: the name (group 2) when
\* the text matches, None otherwise; the match with the optional type is
\* tried first
FunctionMatch(text) ==
    LET typed == {t \in AfterType(text) \ {text} : NameBefore(t, {"("})}
    IN  IF typed # {} THEN Some(Word(CHOOSE t \in typed : TRUE))
        ELSE IF NameBefore(text, {"("}) THEN Some(Word(text))
        ELSE None

\* lines 330-332: names that are no functions
FalsePositives == {<<"i", "f">>, <<"f", "o", "r">>, <<"w", "h", "i", "l", "e">>, <<"s", "w", "i", "t", "c", "h">>, <<"c", "a", "t", "c", "h">>, <<"a", "s", "s", "e", "r", "t">>}

\* the argument filePath of extractCodeFromFile
ExtractPath == FileA

InitExtract ==
    /\ IdleCache
    /\ fsStat = [f \in CacheFiles |-> [exists |-> TRUE, mtimeMs |-> 1]]
    /\ IdleTorn
    /\ IdleMatch
    /\ IdleFetch
    /\ IdleRefs
    /\ IdleMore
    /\ xFile \in {"readable", "missing", "unreadable"}
    /\ xLines \in Contents
    /\ xFile # "readable" => xLines = <<EmptyLine>>
    /\ classes = <<>>
    /\ functions = <<>>
    /\ xResult = None
    /\ xI = 0
    /\ xClass = NoClass
    /\ methods = <<>>
    /\ braceCount = 0
    /\ xJ = 0
    /\ xMethod = NoMethod
    /\ xIndex = 0
    /\ docLines = <<>>
    /\ iterations = 0
    /\ xpc = "read"

\* lines 144-161: one iteration of the for loop of extractClasses; a line with
\* a class lead-in gets its signature, then extractDocumentation is called
ForLine ==
    /\ xpc = "for"
    /\ xI < Len(xLines)
    /\ LET line == xLines[xI + 1]
           classMatch == ClassMatch(Trim(line))
       IN  IF line = <<>> \/ classMatch = None
           THEN /\ xI' = xI + 1
                /\ UNCHANGED <<xClass, methods, xIndex, docLines, iterations, xpc>>
           ELSE /\ xClass' = [className |-> classMatch[1],
                              signature |-> extractCompleteSignature(xLines, xI),
                              documentation |-> None]
                /\ methods' = <<>>
                /\ xIndex' = xI - 1
                /\ docLines' = <<>>
                /\ iterations' = 0
                /\ xpc' = "classDoc"
                /\ UNCHANGED xI
    /\ UNCHANGED <<xLines, classes, braceCount, xJ, xMethod>>
    /\ UNCHANGED <<xFile, functions, xResult>>
    /\ UNCHANGED notExtractVars

\* lines 144, 284: the for loop is over, classes is returned; line 403:
\* extractFunctions is called
ReturnClasses ==
    /\ xpc = "for"
    /\ xI >= Len(xLines)
    /\ xI' = 0
    /\ xpc' = "functions"
    /\ UNCHANGED <<xLines, classes, xClass, methods, braceCount, xJ, xMethod, xIndex,
                   docLines, iterations>>
    /\ UNCHANGED <<xFile, functions, xResult>>
    /\ UNCHANGED notExtractVars

\* the trimmed line at index of extractDocumentation
TrimmedDocLine == Trim(xLines[xIndex + 1])

\* line 20: the line at index is a documentation line
AtDocLine == xIndex >= 0 /\ StartsWith(TrimmedDocLine, <<"/", "/", "/">>)

\* line 22: the line at index is blank and documentation lines were collected
AtBlankLineInDoc ==
    /\ xIndex >= 0
    /\ ~AtDocLine
    /\ TrimmedDocLine = <<>>
    /\ docLines # <<>>

\* lines 20-21, 29: the documentation line is put in front of docLines, index
\* moves up
CollectDocLine ==
    /\ xpc \in {"classDoc", "methodDoc", "functionDoc"}
    /\ AtDocLine
    /\ iterations < MaxIterations
    /\ docLines' = <<Trim(Drop(TrimmedDocLine, 3))>> \o docLines
    /\ xIndex' = xIndex - 1
    /\ iterations' = iterations + 1
    /\ UNCHANGED <<xLines, classes, xI, xClass, methods, braceCount, xJ, xMethod, xpc>>
    /\ UNCHANGED <<xFile, functions, xResult>>
    /\ UNCHANGED notExtractVars

\* lines 22-24: continue, the next iteration starts with the same index
SkipBlankLine ==
    /\ xpc \in {"classDoc", "methodDoc", "functionDoc"}
    /\ AtBlankLineInDoc
    /\ iterations < MaxIterations
    /\ iterations' = iterations + 1
    /\ UNCHANGED <<xLines, classes, xI, xClass, methods, braceCount, xJ, xMethod, xIndex,
                   docLines, xpc>>
    /\ UNCHANGED <<xFile, functions, xResult>>
    /\ UNCHANGED notExtractVars

\* lines 13, 25-28: the loop of extractDocumentation ends
DocLoopEnds == ~AtDocLine /\ ~AtBlankLineInDoc

\* extractDocumentation returns to line 160; lines 163-190: the line with the
\* opening brace is looked for, without one the class is dropped
ReturnClassDocumentation ==
    /\ xpc = "classDoc"
    /\ DocLoopEnds
    /\ xClass' = [xClass EXCEPT !.documentation = DocumentationOf(docLines)]
    /\ LET body == FindOpeningBrace(xLines, xI) IN
         IF body.classStarted
         THEN /\ xJ' = body.j + 1
              /\ braceCount' = body.braceCount
              /\ xpc' = "methods"
              /\ UNCHANGED xI
         ELSE /\ xI' = xI + 1
              /\ xpc' = "for"
              /\ UNCHANGED <<xJ, braceCount>>
    /\ UNCHANGED <<xLines, classes, methods, xMethod, xIndex, docLines, iterations>>
    /\ UNCHANGED <<xFile, functions, xResult>>
    /\ UNCHANGED notExtractVars

\* lines 191-270: one iteration of the loop over the lines of the class body; a
\* line that declares a method gets its signature, then extractDocumentation
\* is called
BodyLine ==
    /\ xpc = "methods"
    /\ xJ < Len(xLines)
    /\ braceCount > 0
    /\ LET methodLine == xLines[xJ + 1]
           trimmedMethodLine == Trim(methodLine)
           name == MethodNameOf(trimmedMethodLine, xClass.className)
       IN  /\ braceCount' = braceCount + CountOf(methodLine, "{") - CountOf(methodLine, "}")
           /\ IF \/ trimmedMethodLine = <<>>
                 \/ StartsWith(trimmedMethodLine, <<"/", "/">>)
                 \/ name = None
              THEN /\ xJ' = xJ + 1
                   /\ UNCHANGED <<xMethod, xIndex, docLines, iterations, xpc>>
              ELSE /\ xMethod' = [name |-> name[1],
                                  signature |-> extractCompleteSignature(xLines, xJ)]
                   /\ xIndex' = xJ - 1
                   /\ docLines' = <<>>
                   /\ iterations' = 0
                   /\ xpc' = "methodDoc"
                   /\ UNCHANGED xJ
    /\ UNCHANGED <<xLines, classes, xI, xClass, methods>>
    /\ UNCHANGED <<xFile, functions, xResult>>
    /\ UNCHANGED notExtractVars

\* extractDocumentation returns to the body loop: methods.push, j++
ReturnMethodDocumentation ==
    /\ xpc = "methodDoc"
    /\ DocLoopEnds
    /\ methods' = Append(methods, [name |-> xMethod.name,
                                   signature |-> xMethod.signature,
                                   documentation |-> DocumentationOf(docLines)])
    /\ xJ' = xJ + 1
    /\ xpc' = "methods"
    /\ UNCHANGED <<xLines, classes, xI, xClass, braceCount, xMethod, xIndex, docLines,
                   iterations>>
    /\ UNCHANGED <<xFile, functions, xResult>>
    /\ UNCHANGED notExtractVars

\* lines 191, 272-281: the body loop is over, classes.push, i = j and the i++
\* of the for loop
PushClass ==
    /\ xpc = "methods"
    /\ ~(xJ < Len(xLines) /\ braceCount > 0)
    /\ classes' = Append(classes, [name |-> xClass.className,
                                   signature |-> xClass.signature,
                                   documentation |-> xClass.documentation,
                                   methods |-> methods])
    /\ xI' = xJ + 1
    /\ xpc' = "for"
    /\ UNCHANGED <<xLines, xClass, methods, braceCount, xJ, xMethod, xIndex, docLines,
                   iterations>>
    /\ UNCHANGED <<xFile, functions, xResult>>
    /\ UNCHANGED notExtractVars

\* the file at filePath disappears before it is read
VanishFile ==
    /\ xpc = "read"
    /\ xFile = "readable"
    /\ xFile' = "missing"
    /\ UNCHANGED <<xLines, classes, functions, xI, xClass, methods, braceCount, xJ, xMethod, xIndex,
                   docLines, iterations, xResult, xpc>>
    /\ UNCHANGED notExtractVars

\* line 400: fs.readFile returns the content or raises; line 402:
\* extractClasses is called
ReadContent ==
    /\ xpc = "read"
    /\ xpc' = IF xFile = "readable" THEN "for" ELSE "catch"
    /\ UNCHANGED <<xFile, xLines, classes, functions, xI, xClass, methods, braceCount, xJ,
                   xMethod, xIndex, docLines, iterations, xResult>>
    /\ UNCHANGED notExtractVars

\* a catch block that raises the error again instead of returning
RethrowError ==
    /\ xpc = "catch"
    /\ xpc' = "raised"
    /\ UNCHANGED <<xFile, xLines, classes, functions, xI, xClass, methods, braceCount, xJ,
                   xMethod, xIndex, docLines, iterations, xResult>>
    /\ UNCHANGED notExtractVars

\* lines 410-417: the catch block returns the empty structure
CatchError ==
    /\ xpc = "catch"
    /\ xResult' = Some([filePath |-> ExtractPath, classes |-> <<>>, functions |-> <<>>])
    /\ xpc' = "done"
    /\ UNCHANGED <<xFile, xLines, classes, functions, xI, xClass, methods, braceCount, xJ,
                   xMethod, xIndex, docLines, iterations>>
    /\ UNCHANGED notExtractVars

\* lines 299-345: one iteration of the for loop of extractFunctions over the
\* cleaned lines; a line that declares a function gets its signature from the
\* lines of the content, then extractDocumentation is called
FunctionLine ==
    /\ xpc = "functions"
    /\ xI < Len(xLines)
    /\ LET line == removeClassBodies(xLines)[xI + 1]
           functionMatch == FunctionMatch(Trim(line))
       IN  IF \/ line = <<>>
              \/ IsSkippedLine(Trim(line))
              \/ functionMatch = None
              \/ functionMatch[1] \in FalsePositives
           THEN /\ xI' = xI + 1
                /\ UNCHANGED <<xMethod, xIndex, docLines, iterations, xpc>>
           ELSE /\ xMethod' = [name |-> functionMatch[1],
                               signature |-> extractCompleteSignature(xLines, xI)]
                /\ xIndex' = xI - 1
                /\ docLines' = <<>>
                /\ iterations' = 0
                /\ xpc' = "functionDoc"
                /\ UNCHANGED xI
    /\ UNCHANGED <<xFile, xLines, classes, functions, xClass, methods, braceCount, xJ,
                   xResult>>
    /\ UNCHANGED notExtractVars

\* extractDocumentation returns to line 336: functions.push, i++
ReturnFunctionDocumentation ==
    /\ xpc = "functionDoc"
    /\ DocLoopEnds
    /\ functions' = Append(functions, [name |-> xMethod.name,
                                       signature |-> xMethod.signature,
                                       documentation |-> DocumentationOf(docLines)])
    /\ xI' = xI + 1
    /\ xpc' = "functions"
    /\ UNCHANGED <<xFile, xLines, classes, xClass, methods, braceCount, xJ, xMethod, xIndex,
                   docLines, iterations, xResult>>
    /\ UNCHANGED notExtractVars

\* lines 299, 348: the for loop of extractFunctions is over; lines 405-409:
\* extractCodeFromFile returns the structure
ReturnFunctions ==
    /\ xpc = "functions"
    /\ xI >= Len(xLines)
    /\ xResult' = Some([filePath |-> ExtractPath, classes |-> classes,
                        functions |-> functions])
    /\ xpc' = "done"
    /\ UNCHANGED <<xFile, xLines, classes, functions, xI, xClass, methods, braceCount, xJ,
                   xMethod, xIndex, docLines, iterations>>
    /\ UNCHANGED notExtractVars

NextExtract ==
    \/ VanishFile
    \/ ReadContent
    \/ CatchError
    \/ FunctionLine
    \/ ReturnFunctionDocumentation
    \/ ReturnFunctions
    \/ ForLine
    \/ ReturnClasses
    \/ CollectDocLine
    \/ SkipBlankLine
    \/ ReturnClassDocumentation
    \/ BodyLine
    \/ ReturnMethodDocumentation
    \/ PushClass

\* extractCodeFromFile runs on until it returns
SpecExtract == InitExtract /\ [][NextExtract]_vars /\ WF_vars(NextExtract)

\* the upward scan of extractDocumentation is running
InDocScan == xpc \in {"classDoc", "methodDoc", "functionDoc"}

\* C19: structure extraction terminates on every file content, also with
\* unbalanced delimiters, unterminated string literals and documentation
\* blocks with a blank line above or inside them. The code is sequential and
\* deterministic, so it terminates only if no iteration of a loop leaves the
\* state of the loop as it was: every iteration of the upward scan of
\* extractDocumentation changes index or docLines.
C19_ExtractionTerminates ==
    [][(InDocScan /\ InDocScan') => <<xIndex, docLines>>' # <<xIndex, docLines>>]_vars

\* the methods of the first ClassInfo named Foo
MethodNamesOfFoo ==
    LET k == CHOOSE n \in 1..Len(classes) :
                 /\ classes[n].name = <<"F", "o", "o">>
                 /\ \A m \in 1..(n - 1) : classes[m].name # <<"F", "o", "o">>
    IN  [m \in 1..Len(classes[k].methods) |-> classes[k].methods[m].name]

\* C20: for the content 'class Foo { bar() {} }', a class whose body is opened
\* and closed on the declaration line, extraction yields one ClassInfo named
\* Foo whose methods list holds the method bar.
C20_OneLineClassMethods ==
    (xpc = "done" /\ xLines = <<OneLineClass>>) =>
        /\ Len(classes) = 1
        /\ classes[1].name = <<"F", "o", "o">>
        /\ MethodNamesOfFoo = << <<"b", "a", "r">> >>

\* the lines of the header of the class declared on the first line of the
\* content: the lines down to the first one with an opening brace
HeaderLines == SubSeq(xLines, 1, FindOpeningBrace(xLines, 0).j + 1)

\* C21: a class declaration whose header spans several lines, the opening
\* brace of the body being on the last of them, gets a signature that holds
\* the text of every header line, collapsed to one line with single spaces;
\* also when the first line is delimiter-balanced and ends neither in ',' nor
\* in '=>' ('class Foo' / 'extends Bar' / 'implements Baz {').
C21_HeaderInSignature ==
    (xpc = "done" /\ xLines = HeaderContent) =>
        /\ Len(classes) = 1
        /\ \A k \in 1..Len(HeaderLines) : Contains(classes[1].signature, Trim(HeaderLines[k]))
        /\ classes[1].signature = Trim(CollapseSpaces(JoinLines(HeaderLines)))

\* the same class below a one-line documentation comment in each of the
\* styles '///', '/** */' and '#'
DocumentedContents == {<<DocLine, ClassOpen, CloseBrace>>, JsDocContent, HashContent}

\* C23: a block of documentation lines directly above a declaration is
\* collected as its documentation when it is written with '///' lines, with
\* a '/** ... */' block or with '#' lines.
C23_EveryCommentStyle ==
    (xpc = "done" /\ xLines \in DocumentedContents) =>
        /\ Len(classes) = 1
        /\ classes[1].documentation # None

\* the structure with the given filePath and empty lists
EmptyStructure == [filePath |-> ExtractPath, classes |-> <<>>, functions |-> <<>>]

\* C22: extractCodeFromFile never fails outward: no exception reaches the
\* caller, what it returns is a structure with the given filePath, and for a
\* file that is missing, unreadable or vanishes before the read the structure
\* has empty classes and functions lists.
C22_NeverFailsOutward ==
    /\ xpc # "raised"
    /\ xpc = "done" => (xResult # None /\ xResult[1].filePath = ExtractPath)
    /\ (xpc = "done" /\ xFile # "readable") => xResult = Some(EmptyStructure)

\* the file vanished before the read and the empty structure was returned
C22_Witness ==
    /\ xpc = "done"
    /\ xFile = "missing"
    /\ xLines # <<EmptyLine>>
    /\ xResult = Some(EmptyStructure)

-----------------------------------------------------------------------------
(* fetchContext over all configured directories, as the server calls it:
   src/src/tools/fetchContext.ts lines 18-155 and src/src/server.ts lines
   204-220. What the steps on one directory compute is modelled in SpecFetch;
   here each step has its outcome only: files found or not, cache hit or
   miss, an error raised or not. *)

\* the directories that config.searchableDirectories names in the model;
\* DirOne and DirTwin have the same basename
DirOne == <<"/", "r", "/", "a", "u", "t", "h">>
DirTwo == <<"/", "r", "/", "u", "s", "e", "r">>
DirTwin == <<"/", "q", "/", "a", "u", "t", "h">>

\* the section that fetchContext pushes to results for a directory; payload
\* is the directory whose markdown the section holds (None in the section
\* 'No files found')
Section(dir, kind, payload) == [dir |-> dir, kind |-> kind, payload |-> payload]

\* what the tool call returns
Response(kind, sections) == Some([kind |-> kind, sections |-> sections])

\* lines 64-94: allFiles for targetPath; without globs and regex
\* findMatchingFiles returns no file
BatchFiles(targetPath) ==
    IF bPatterns /\ targetPath \in bFiles THEN <<Join(targetPath, <<"a", ".", "t", "s">>)>>
    ELSE <<>>

\* line 97: singleDirRequest
BatchRequest(targetPath) ==
    [target_directory |-> Basename(targetPath),
     globs |-> IF bPatterns THEN Some(<<GlobTs>>) ELSE None,
     regex |-> None,
     reference_depth |-> None]

\* the cache key that getCachedResult and saveToCache compute for targetPath
\* (cacheManager.ts lines 74-77, 115-116); every file has modification time 1
BatchKey(targetPath) ==
    LET allFiles == BatchFiles(targetPath)
        stat == [f \in Range(allFiles) |-> [exists |-> TRUE, mtimeMs |-> 1]]
    IN  generateCacheKey(BatchRequest(targetPath), allFiles,
                         getFileModificationTimes(stat, allFiles))

InitBatch ==
    /\ IdleCache
    /\ fsStat = [f \in CacheFiles |-> [exists |-> TRUE, mtimeMs |-> 1]]
    /\ IdleTorn
    /\ IdleMatch
    /\ IdleFetch
    /\ IdleRefs
    /\ IdleExtract
    /\ IdleConfig
    /\ IdleLast
    /\ searchableDirectories \in {<<DirOne, DirTwo>>, <<DirOne, DirTwin>>}
    /\ bDisk \in [Range(searchableDirectories) -> {"directory", "file", "missing"}]
    /\ bTerm \in SUBSET Range(searchableDirectories)
    /\ bPatterns \in BOOLEAN
    /\ bFiles \in SUBSET Range(searchableDirectories)
    /\ bCacheWritable \in BOOLEAN
    /\ bCached \in {{}} \cup {{[key |-> BatchKey(d), payload |-> d]} :
                                d \in Range(searchableDirectories)}
    /\ bMatched = <<>>
    /\ bK = 1
    /\ bResults = <<>>
    /\ bFailed = {}
    /\ bResponse = None
    /\ bpc = "select"

\* fetchContext.ts lines 26-57: the directories that exist and whose name
\* includes a search term; without one the call returns at once
SelectDirectories ==
    /\ bpc = "select"
    /\ LET IsMatched(d) == bDisk[d] = "directory" /\ d \in bTerm
           matchedDirectories == SelectSeq(searchableDirectories, IsMatched)
       IN  /\ bMatched' = matchedDirectories
           /\ IF matchedDirectories = <<>>
              THEN /\ bResponse' = Response("nodirs", <<>>)
                   /\ bpc' = "done"
              ELSE /\ bpc' = "match"
                   /\ UNCHANGED bResponse
    /\ UNCHANGED <<searchableDirectories, bDisk, bTerm, bPatterns, bFiles, bCached,
                   bCacheWritable, bK, bResults, bFailed>>
    /\ UNCHANGED notBatchVars

\* a directory is removed while the call is running
DirectoryVanishes(d) ==
    /\ bpc \in {"match", "lookup", "extract", "save"}
    /\ bDisk[d] = "directory"
    /\ bDisk' = [bDisk EXCEPT ![d] = "missing"]
    /\ UNCHANGED <<searchableDirectories, bTerm, bPatterns, bFiles, bCached, bCacheWritable,
                   bMatched, bK, bResults, bFailed, bResponse, bpc>>
    /\ UNCHANGED notBatchVars

\* lines 60-91: findMatchingFiles raises when targetPath is no directory
\* (patternMatcher.ts lines 138-150); no file for the patterns gives the
\* section 'No files found'; otherwise the file lists are computed
MatchFiles ==
    /\ bpc = "match"
    /\ bK <= Len(bMatched)
    /\ LET targetPath == bMatched[bK] IN
         IF bDisk[targetPath] # "directory"
         THEN /\ bFailed' = bFailed \cup {targetPath}
              /\ bpc' = "raised"
              /\ UNCHANGED <<bK, bResults>>
         ELSE IF bPatterns /\ targetPath \notin bFiles
              THEN /\ bResults' = Append(bResults, Section(targetPath, "nofiles", None))
                   /\ bK' = bK + 1
                   /\ UNCHANGED <<bFailed, bpc>>
              ELSE /\ bpc' = "lookup"
                   /\ UNCHANGED <<bK, bResults, bFailed>>
    /\ UNCHANGED <<searchableDirectories, bDisk, bTerm, bPatterns, bFiles, bCached,
                   bCacheWritable, bMatched, bResponse>>
    /\ UNCHANGED notBatchVars

\* lines 97-102: getCachedResult; a hit is pushed to results
LookupCache ==
    /\ bpc = "lookup"
    /\ LET hits == {e \in bCached : e.key = BatchKey(bMatched[bK])} IN
         IF hits # {}
         THEN /\ bResults' = Append(bResults, Section(bMatched[bK], "cached",
                                                      Some((CHOOSE e \in hits : TRUE).payload)))
              /\ bK' = bK + 1
              /\ bpc' = "match"
         ELSE /\ bpc' = "extract"
              /\ UNCHANGED <<bK, bResults>>
    /\ UNCHANGED <<searchableDirectories, bDisk, bTerm, bPatterns, bFiles, bCached,
                   bCacheWritable, bMatched, bFailed, bResponse>>
    /\ UNCHANGED notBatchVars

\* lines 104-141: extractCodeFromFile for every file, the README search and
\* buildMarkdownExplanation
ExtractAndBuild ==
    /\ bpc = "extract"
    /\ bpc' = "save"
    /\ UNCHANGED <<searchableDirectories, bDisk, bTerm, bPatterns, bFiles, bCached,
                   bCacheWritable, bMatched, bK, bResults, bFailed, bResponse>>
    /\ UNCHANGED notBatchVars

\* lines 144-146: saveToCache, whose fs.writeFile raises when the cache
\* directory cannot be written (cacheManager.ts lines 126-127); then the
\* markdown is pushed to results
SaveAndPush ==
    /\ bpc = "save"
    /\ IF bCacheWritable
       THEN /\ bCached' = {e \in bCached : e.key # BatchKey(bMatched[bK])}
                           \cup {[key |-> BatchKey(bMatched[bK]), payload |-> bMatched[bK]]}
            /\ bResults' = Append(bResults, Section(bMatched[bK], "markdown",
                                                    Some(bMatched[bK])))
            /\ bK' = bK + 1
            /\ bpc' = "match"
            /\ UNCHANGED bFailed
       ELSE /\ bFailed' = bFailed \cup {bMatched[bK]}
            /\ bpc' = "raised"
            /\ UNCHANGED <<bCached, bResults, bK>>
    /\ UNCHANGED <<searchableDirectories, bDisk, bTerm, bPatterns, bFiles, bCacheWritable,
                   bMatched, bResponse>>
    /\ UNCHANGED notBatchVars

\* lines 60, 149-154: the for loop is over, the sections are joined and
\* returned
ReturnResults ==
    /\ bpc = "match"
    /\ bK > Len(bMatched)
    /\ bResponse' = Response("results", bResults)
    /\ bpc' = "done"
    /\ UNCHANGED <<searchableDirectories, bDisk, bTerm, bPatterns, bFiles, bCached,
                   bCacheWritable, bMatched, bK, bResults, bFailed>>
    /\ UNCHANGED notBatchVars

\* server.ts lines 205-219: the error leaves fetchContext; the catch of the
\* server returns the page '# Error analyzing package'
ServerCatch ==
    /\ bpc = "raised"
    /\ bResponse' = Response("error", <<>>)
    /\ bpc' = "done"
    /\ UNCHANGED <<searchableDirectories, bDisk, bTerm, bPatterns, bFiles, bCached,
                   bCacheWritable, bMatched, bK, bResults, bFailed>>
    /\ UNCHANGED notBatchVars

NextBatch ==
    \/ SelectDirectories
    \/ \E d \in Range(searchableDirectories) : DirectoryVanishes(d)
    \/ MatchFiles
    \/ LookupCache
    \/ ExtractAndBuild
    \/ SaveAndPush
    \/ ReturnResults
    \/ ServerCatch

SpecBatch == InitBatch /\ [][NextBatch]_vars

\* the directories that have a section in what the tool call returned
DirectoriesReturned ==
    {bResponse[1].sections[k].dir : k \in 1..Len(bResponse[1].sections)}

\* C24: when the processing of one matched directory fails, the sections of
\* the other matched directories, those produced before and those still to
\* be produced, are returned to the caller.
C24_ErrorIsolation ==
    bpc = "done" => \A d \in Range(bMatched) \ bFailed : d \in DirectoriesReturned

-----------------------------------------------------------------------------
(* The start of the server: main of src/src/index.ts, the constructor of
   LocalRepoScannerServer in src/src/server.ts and loadConfig. A configuration
   object is a function from the keys to a value or to "undefined". *)

ConfigKeys == {"searchableDirectories", "cacheDir"}

\* the values a key takes in the model; a searchableDirectories value stands
\* for an array of existing directories
ConfigValues == {"v1", "v2"}

ConfigObjects == [ConfigKeys -> ConfigValues \cup {"undefined"}]

\* the object {}
EmptyObject == [key \in ConfigKeys |-> "undefined"]

\* { ...below, ...above }
Spread(below, above) ==
    [key \in ConfigKeys |-> IF above[key] # "undefined" THEN above[key] ELSE below[key]]

\* loadConfig(mcpConfig) of src/unnamed/part_003: the merge of config.json,
\* the environment variables and mcpConfig, None when it throws because
\* searchableDirectories is no array; cacheDir gets its default
loadConfig(file, environment, mcp) ==
    LET fromFile == IF file = None THEN EmptyObject ELSE file[1]
        merged == Spread(fromFile, environment)
        finalConfig == IF mcp = None THEN merged ELSE Spread(merged, mcp[1])
    IN  IF finalConfig["searchableDirectories"] = "undefined" THEN None
        ELSE Some([finalConfig EXCEPT !["cacheDir"] =
                       IF @ = "undefined" THEN "default" ELSE @])

InitConfig ==
    /\ IdleCache
    /\ fsStat = [f \in CacheFiles |-> [exists |-> TRUE, mtimeMs |-> 1]]
    /\ IdleTorn
    /\ IdleMatch
    /\ IdleFetch
    /\ IdleRefs
    /\ IdleExtract
    /\ IdleBatch
    /\ IdleLast
    /\ argConfig \in {None} \cup {Some(c) : c \in ConfigObjects}
    /\ envConfig \in ConfigObjects
    /\ fileConfig \in {None} \cup {Some(c) : c \in ConfigObjects}
    /\ mcpConfig = None
    /\ serverConfig = None
    /\ cpc = "main"

\* index.ts lines 8-17: the --config argument is looked up and parsed
ParseArgument ==
    /\ cpc = "main"
    /\ mcpConfig' = argConfig
    /\ cpc' = "construct"
    /\ UNCHANGED <<argConfig, envConfig, fileConfig, serverConfig>>
    /\ UNCHANGED notConfigVars

\* index.ts line 21: new LocalRepoScannerServer(mcpConfig); server.ts lines
\* 56-57: the constructor has no parameter and calls loadConfig(); an error
\* of loadConfig ends the process (index.ts lines 23-26)
ConstructServer ==
    /\ cpc = "construct"
    /\ serverConfig' = loadConfig(fileConfig, envConfig, None)
    /\ cpc' = IF loadConfig(fileConfig, envConfig, None) = None THEN "exit" ELSE "running"
    /\ UNCHANGED <<argConfig, envConfig, fileConfig, mcpConfig>>
    /\ UNCHANGED notConfigVars

NextConfig ==
    \/ ParseArgument
    \/ ConstructServer

SpecConfig == InitConfig /\ [][NextConfig]_vars

\* C25: when the server is started with --config=<json>, the configuration
\* the running server uses takes every key of that JSON from it, whatever the
\* environment variables and config.json define for the key.
C25_McpConfigWins ==
    (cpc \in {"running", "exit"} /\ argConfig # None) =>
        \A key \in ConfigKeys :
            argConfig[1][key] # "undefined" =>
                (serverConfig # None /\ serverConfig[1][key] = argConfig[1][key])

-----------------------------------------------------------------------------
(* fetchContext on one directory while files of the directory are written
   during the call *)

\* a file of the directory is written while a call is between its cache
\* lookup and saveToCache: its modification time moves on
ModifyFileInCall ==
    /\ fpc \in {"extract", "build", "save"}
    /\ \E f \in DOMAIN fsStat :
         /\ fsStat[f].mtimeMs < MaxFetchTime
         /\ fsStat' = [fsStat EXCEPT ![f].mtimeMs = @ + 1]
    /\ UNCHANGED <<cacheDir, op, saves, clean, damaged>>
    /\ UNCHANGED <<tornVars, matchVars, fetchVars, restVars>>

NextFetchRace ==
    \/ NextFetch
    \/ ModifyFileInCall

SpecFetchRace == InitFetch /\ [][NextFetchRace]_vars

\* C26: the timestamps a cache entry records for the matched and the
\* referencing files are those of the versions that were read for its
\* payload: a payload returned as a hit holds, for each of these files, the
\* version with the timestamp the file has at the lookup, also when the file
\* was modified between its extraction and saveToCache.
C26_TimestampsOfVersionsRead ==
    (fpc = "done" /\ fresult.kind = "cached") =>
        \A i \in 1..Len(fresult.content) :
            fresult.content[i].path # ReadmePath =>
                StatOrZero(fsStat, fresult.content[i].path) = fresult.content[i].mtimeMs

\* lines 66-76: a directory without matched files under a request with
\* patterns gets the section 'No files found' and no cache lookup
ReachesLookup(targetPath) == ~bPatterns \/ targetPath \in bFiles

\* C27: requests over different target directories never share a cache
\* entry: for two distinct matched directories and the same request
\* parameters fetchContext computes different cache keys, also when the
\* directories have the same basename and no file is matched in either, so
\* that no section of a directory holds the markdown of another directory.
C27_DistinctKeysPerDirectory ==
    /\ \A i, j \in 1..Len(bMatched) :
           (/\ bMatched[i] # bMatched[j]
            /\ ReachesLookup(bMatched[i])
            /\ ReachesLookup(bMatched[j]))
           => BatchKey(bMatched[i]) # BatchKey(bMatched[j])
    /\ \A k \in 1..Len(bResults) :
           bResults[k].payload # None => bResults[k].payload = Some(bResults[k].dir)

\* the steps of the current call with the given name, in order
CallsNamed(name) == SelectSeq(fCalls, LAMBDA c : c.call = name)

\* the steps of the current call up to the cache lookup
LookupPrefix ==
    SubSeq(fCalls, 1, Len(fCalls) - Len(CallsNamed("extractCodeFromFile"))
                                  - Len(CallsNamed("buildMarkdownExplanation"))
                                  - Len(CallsNamed("saveToCache")))

\* C28: per target directory the cache lookup comes after file matching and
\* reference tracking and is made with the matched files followed by the
\* referencing files; on a hit neither extractCodeFromFile nor saveToCache
\* is called; on a miss every matched and every referencing file is
\* extracted, then the markdown is built, then saveToCache is called exactly
\* once, with the request descriptor and the file list of the lookup.
C28_PipelineOrdering ==
    /\ \A i \in 1..Len(fCalls) :
           fCalls[i].call = "getCachedResult" =>
               /\ i = Len(LookupPrefix)
               /\ fCalls[1].call = "findMatchingFiles"
               /\ fCalls[i - 1].call = "referencingFilePaths"
               /\ fCalls[i].files = fCalls[1].files \o fCalls[i - 1].files
    /\ (fpc = "done" /\ fresult.kind = "cached") =>
           /\ fCalls = LookupPrefix
           /\ CallsNamed("extractCodeFromFile") = <<>>
           /\ CallsNamed("saveToCache") = <<>>
    /\ (fpc = "done" /\ fresult.kind = "generated") =>
           LET p == Len(LookupPrefix)
               lookup == fCalls[p]
               n == Len(lookup.files)
           IN  /\ lookup.call = "getCachedResult"
               /\ Len(fCalls) = p + n + 2
               /\ \A i \in 1..n :
                      fCalls[p + i] = Call("extractCodeFromFile", None, <<lookup.files[i]>>)
               /\ fCalls[p + n + 1].call = "buildMarkdownExplanation"
               /\ fCalls[p + n + 2] = Call("saveToCache", lookup.request, lookup.files)
               /\ Len(CallsNamed("saveToCache")) = 1

\* C29: first discovery wins in findReferencingFiles. An entry of the
\* reference map is never changed by a later pass (its file, depth and
\* imports stay, at its place in the map), every target keeps depth 0 and no
\* imports even if it imports another target, and no file is added a second
\* time.
C29_FirstDiscoveryWins ==
    /\ [](\A i, j \in 1..Len(references) :
              references[i].file = references[j].file => i = j)
    /\ [](refpc # "start" =>
              \A i \in 1..Len(rTargets) :
                  references[i] = [file |-> rTargets[i], imports |-> <<>>, depth |-> 0])
    /\ [][/\ Len(references') >= Len(references)
          /\ \A i \in 1..Len(references) : references'[i] = references[i]]_vars

\* the call returned after a pass that met tracked files again: two targets,
\* one importing the other, and a file found in the first pass
C29_Witness ==
    /\ refpc = "done"
    /\ rTargets = <<FileA, FileB>>
    /\ FileB \in Range(rImports[FileA])
    /\ passes >= 2
    /\ Len(references) >= 3
    /\ references[3].depth = 1

\* the entry of the reference map i has a non-empty imports list whose
\* elements are keys of entries added before it
ImportsAddedBefore(i) ==
    /\ references[i].imports # <<>>
    /\ \A k \in 1..Len(references[i].imports) :
           \E j \in 1..(i - 1) : references[j].file = references[i].imports[k]

\* C30: in every state of findReferencingFiles and in its result, each entry
\* with depth >= 1 has a non-empty imports list, every element of which is a
\* key of the reference map that was added before that entry, and the depth
\* of the entry is strictly greater than the depth of each file in its
\* imports.
C30_ImportsAreNearer ==
    \A i \in 1..Len(references) :
        references[i].depth >= 1 =>
            /\ ImportsAddedBefore(i)
            /\ \A k \in 1..Len(references[i].imports) :
                   \A j \in 1..Len(references) :
                       references[j].file = references[i].imports[k] =>
                           references[i].depth > references[j].depth

\* the files of the steps of the current call with the given name
FilesOfCalls(name) ==
    UNION {Range(fCalls[i].files) : i \in {k \in 1..Len(fCalls) : fCalls[k].call = name}}

\* C31: the referencing files that fetchContext extracts, renders and
\* fingerprints are disjoint from the matched files; with reference_depth = 0
\* the referencing list is empty and findReferencingFiles is not called.
C31_ReferencingDisjoint ==
    /\ FilesOfCalls("referencingFilePaths") \cap FilesOfCalls("findMatchingFiles") = {}
    /\ FilesOfCalls("getCachedResult")
           = FilesOfCalls("findMatchingFiles") \cup FilesOfCalls("referencingFilePaths")
    /\ \A i \in 1..Len(fExtracted) :
           fpc \in {"build", "save"} =>
               fExtracted[i].path \in FilesOfCalls("getCachedResult")
    /\ ReferenceDepth = 0 =>
           /\ FilesOfCalls("referencingFilePaths") = {}
           /\ CallsNamed("findReferencingFiles") = <<>>

\* a finished call that tracked references from a matched file and found a
\* referencing file
C31_Witness ==
    /\ fpc = "done"
    /\ fresult.kind = "generated"
    /\ Len(CallsNamed("findReferencingFiles")) = 1
    /\ FilesOfCalls("findMatchingFiles") # {}
    /\ FilesOfCalls("referencingFilePaths") # {}

\* opening minus closing braces on the lines from..to (1-based) of the content
RECURSIVE Balance(_, _, _)
Balance(fileLines, from, to) ==
    IF to < from THEN 0
    ELSE Balance(fileLines, from, to - 1)
             + CountOf(fileLines[to], "{") - CountOf(fileLines[to], "}")

\* line k (1-based) of the content lies between the opening brace of a class,
\* enum, mixin or extension and the matching closing brace
InsideClassBody(fileLines, k) ==
    \E c \in 1..Len(fileLines) :
        /\ \E w \in ClassWords : StartsWith(Trim(fileLines[c]), w)
        /\ \E o \in c..Len(fileLines) :
               /\ CountOf(fileLines[o], "{") > 0
               /\ \A m \in c..(o - 1) : CountOf(fileLines[m], "{") = 0
               /\ o < k
               /\ \A e \in o..(k - 1) : Balance(fileLines, o, e) > 0
               /\ Balance(fileLines, o, k) > 0

\* C32: no declaration inside a class, enum, mixin or extension body is
\* reported as a top-level function: a line between the opening brace of a
\* class and its matching closing brace never produces a FunctionInfo, also
\* when the opening brace is on a later line than the class keyword.
C32_NoMethodAsFunction ==
    [][Len(functions') > Len(functions) => ~InsideClassBody(xLines, xI + 1)]_vars

\* C33: every FunctionInfo comes from a top-level declaration line, a line at
\* brace depth 0 of the file: a line inside the body of a top-level function
\* (such as the call statement 'print(x);') never produces a FunctionInfo.
C33_FunctionsAtDepthZero ==
    [][Len(functions') > Len(functions) => ~(Balance(xLines, 1, xI) > 0)]_vars

\* opening minus closing braces on the lines from..to (1-based) of the
\* content, the braces of '//' comment lines left out
RECURSIVE CodeBalance(_, _, _)
CodeBalance(fileLines, from, to) ==
    IF to < from THEN 0
    ELSE CodeBalance(fileLines, from, to - 1)
             + (IF StartsWith(Trim(fileLines[to]), <<"/", "/">>) THEN 0
                ELSE CountOf(fileLines[to], "{") - CountOf(fileLines[to], "}"))

\* line k (1-based) lies inside the balanced body of the class declared on
\* line c: behind the line of its opening brace and not behind its matching
\* closing brace
InsideBodyOf(fileLines, c, k) ==
    \E o \in c..(k - 1) :
        /\ CountOf(fileLines[o], "{") > 0
        /\ \A m \in c..(o - 1) : CountOf(fileLines[m], "{") = 0
        /\ \A e \in o..(k - 1) : CodeBalance(fileLines, o, e) > 0

\* C34: every MethodInfo of a ClassInfo comes from a line lexically inside
\* the balanced body of that class: the body scan starts at the opening brace
\* of the class and ends at its matching closing brace, braces in '//'
\* comments neither open nor close the body, so no line after the closing
\* brace of the class is attributed to it.
C34_MethodsInsideBody ==
    [][Len(methods') > Len(methods) => InsideBodyOf(xLines, xI + 1, xJ + 1)]_vars

\* the lines (1-based) of the content that match the class lead-in at brace
\* depth 0 and have a body delimited by braces
TopLevelClassLines(fileLines) ==
    {c \in 1..Len(fileLines) :
        /\ ClassMatch(Trim(fileLines[c])) # None
        /\ Balance(fileLines, 1, c - 1) = 0
        /\ \E o \in c..Len(fileLines) :
               /\ CountOf(fileLines[o], "{") > 0
               /\ \A m \in c..(o - 1) : CountOf(fileLines[m], "{") = 0
               /\ \E e \in o..Len(fileLines) : Balance(fileLines, o, e) = 0}

\* C35: every line that matches the class lead-in and has a body delimited
\* by braces yields exactly one ClassInfo, in source order, for any sequence
\* of classes in a file, a class on the line after the closing brace of the
\* previous class and a class after a one-line class included (stated for
\* the files in which every class lead-in is at depth 0 and has such a body).
C35_OneClassInfoPerClass ==
    (/\ xpc = "done" /\ xFile = "readable" /\ xResult # None
     /\ \A c \in 1..Len(xLines) :
            ClassMatch(Trim(xLines[c])) # None => c \in TopLevelClassLines(xLines)) =>
        /\ Len(xResult[1].classes) = Cardinality(TopLevelClassLines(xLines))
        /\ \A k \in 1..Len(xResult[1].classes) :
               \E c \in TopLevelClassLines(xLines) :
                   /\ Cardinality({d \in TopLevelClassLines(xLines) : d <= c}) = k
                   /\ ClassMatch(Trim(xLines[c])) = Some(xResult[1].classes[k].name)

-----------------------------------------------------------------------------
(* The character loop of extractCompleteSignature on one line:               *)
(* src/utils/codeExtractor.ts lines 47-69                                    *)

\* the characters of the scanned lines
ScanChars == {"\"", "'", "\\", "(", "a"}

InitScan ==
    /\ IdleCache
    /\ fsStat = [f \in CacheFiles |-> [exists |-> TRUE, mtimeMs |-> 1]]
    /\ IdleTorn
    /\ IdleMatch
    /\ IdleFetch
    /\ IdleRefs
    /\ IdleExtract
    /\ IdleBatch
    /\ IdleConfig
    /\ IdleUpdate
    /\ sLine \in UNION {[1..n -> ScanChars] : n \in 1..MaxScanLen}
    /\ sPos = 0
    /\ sState = NoneOpen

\* lines 48-69: one iteration of 'for (const char of signature)'
ScanStep ==
    /\ sPos < Len(sLine)
    /\ sState' = ScanChar(sState, sLine[sPos + 1], sLine)
    /\ sPos' = sPos + 1
    /\ UNCHANGED sLine
    /\ UNCHANGED notScanVars

NextScan == ScanStep

SpecScan == InitScan /\ [][NextScan]_vars

\* the toggle on the k-th character of the line: a quote equal to the
\* opening quote closes the literal if and only if the character before
\* this occurrence is no backslash
ToggleChar(st, line, k) ==
    IF ~st.inString THEN ScanChar(st, line[k], line)
    ELSE IF line[k] = st.stringChar /\ (k = 1 \/ line[k - 1] # "\\")
         THEN [st EXCEPT !.inString = FALSE]
         ELSE st

\* the toggle over the first k characters of the line
RECURSIVE ToggleUpTo(_, _)
ToggleUpTo(line, k) ==
    IF k = 0 THEN NoneOpen ELSE ToggleChar(ToggleUpTo(line, k - 1), line, k)

\* C36: string-literal tracking in the signature scanner is an
\* unescaped-quote toggle evaluated at the current character: a quote equal
\* to the opening quote closes the literal if and only if the character
\* immediately before that occurrence is not a backslash, for every
\* occurrence on the line, and delimiters inside an open literal do not
\* change the counts.
C36_UnescapedQuoteToggle == sState = ToggleUpTo(sLine, sPos)

-----------------------------------------------------------------------------
(* update-config: src/tools/updateConfig.ts, called by the server of         *)
(* src/server.ts, whose constructor calls loadConfig of src/config.ts        *)

\* JavaScript values: undefined, null, strings, arrays (with the properties
\* set on the array object besides its elements) and objects
Undefined == [t |-> "undefined"]
Null == [t |-> "null"]
Str(v) == [t |-> "string", v |-> v]
Arr(items, props) == [t |-> "array", items |-> items, props |-> props]
Obj(m) == [t |-> "object", m |-> m]

\* typeof value === 'object' && value !== null
IsObjectLike(value) == value.t \in {"object", "array"}

\* the properties of an object or array besides the elements of the array
Properties(value) == IF value.t = "object" THEN value.m ELSE value.props

\* k in value
HasKey(value, k) == k \in DOMAIN Properties(value)

\* value[k]
Member(value, k) == IF HasKey(value, k) THEN Properties(value)[k] ELSE Undefined

Put(f, k, v) == [x \in DOMAIN f \cup {k} |-> IF x = k THEN v ELSE f[x]]

\* value[k] = v
WithMember(value, k, v) ==
    IF value.t = "object" THEN [value EXCEPT !.m = Put(value.m, k, v)]
    ELSE [value EXCEPT !.props = Put(value.props, k, v)]

\* delete value[k]
WithoutMember(value, k) ==
    IF value.t = "object" THEN [value EXCEPT !.m = [x \in DOMAIN value.m \ {k} |-> value.m[x]]]
    ELSE [value EXCEPT !.props = [x \in DOMAIN value.props \ {k} |-> value.props[x]]]

\* JSON.parse(JSON.stringify(value)): members that are undefined are left
\* out, undefined elements become null, the properties of arrays are left out
RECURSIVE Stringify(_)
Stringify(value) ==
    IF value.t = "object"
    THEN Obj([k \in {x \in DOMAIN value.m : value.m[x] # Undefined} |-> Stringify(value.m[k])])
    ELSE IF value.t = "array"
    THEN Arr([i \in 1..Len(value.items) |->
                 IF value.items[i] = Undefined THEN Null ELSE Stringify(value.items[i])],
             <<>>)
    ELSE value

\* lines 14-26: getNestedValue(obj, path), path split at the dots
RECURSIVE getNestedValue(_, _)
getNestedValue(obj, keys) ==
    IF keys = <<>> THEN obj
    ELSE IF ~IsObjectLike(obj) THEN Undefined
    ELSE getNestedValue(Member(obj, Head(keys)), Tail(keys))

\* lines 58-73: the config after set
RECURSIVE SetAt(_, _, _)
SetAt(current, keys, value) ==
    IF Len(keys) = 1 THEN WithMember(current, keys[1], value)
    ELSE LET k == keys[1]
             child == IF HasKey(current, k) /\ IsObjectLike(Member(current, k))
                      THEN Member(current, k) ELSE Obj(<<>>)
         IN  WithMember(current, k, SetAt(child, Tail(keys), value))

\* lines 75-94: the outcome of delete and the config after it
RECURSIVE DeleteAt(_, _)
DeleteAt(parent, keys) ==
    IF Len(keys) = 1 THEN [kind |-> "ok", config |-> WithoutMember(parent, keys[1])]
    ELSE LET k == keys[1] IN
         IF ~HasKey(parent, k) \/ ~IsObjectLike(Member(parent, k))
         THEN [kind |-> "keynotfound", config |-> parent]
         ELSE LET below == DeleteAt(Member(parent, k), Tail(keys)) IN
              [kind |-> below.kind,
               config |-> IF below.kind = "ok" THEN WithMember(parent, k, below.config)
                          ELSE parent]

\* lines 96-117: the outcome of add and the config after it
RECURSIVE AddAt(_, _, _)
AddAt(arrayParent, keys, item) ==
    IF keys = <<>>
    THEN IF arrayParent.t = "array"
         THEN [kind |-> "ok",
               config |-> [arrayParent EXCEPT !.items = Append(@, item)]]
         ELSE [kind |-> "error", config |-> arrayParent]
    ELSE IF ~IsObjectLike(arrayParent) THEN [kind |-> "error", config |-> arrayParent]
    ELSE LET k == Head(keys)
             child == IF HasKey(arrayParent, k) THEN Member(arrayParent, k)
                      ELSE Arr(<<>>, <<>>)
             below == AddAt(child, Tail(keys), item)
         IN  [kind |-> below.kind,
              config |-> IF below.kind = "ok" THEN WithMember(arrayParent, k, below.config)
                         ELSE arrayParent]

\* lines 119-146: the outcome of remove and the config after it
RECURSIVE RemoveAt(_, _, _)
RemoveAt(arrayParent, keys, item) ==
    IF keys = <<>>
    THEN IF arrayParent.t # "array" THEN [kind |-> "error", config |-> arrayParent]
         ELSE LET at == {i \in 1..Len(arrayParent.items) :
                            item.t = "string" /\ arrayParent.items[i] = item} IN
              IF at = {} THEN [kind |-> "itemnotfound", config |-> arrayParent]
              ELSE LET index == CHOOSE i \in at : \A j \in at : i <= j IN
                   [kind |-> "ok",
                    config |-> [arrayParent EXCEPT !.items =
                                   SubSeq(@, 1, index - 1) \o SubSeq(@, index + 1, Len(@))]]
    ELSE IF ~IsObjectLike(arrayParent) \/ ~HasKey(arrayParent, Head(keys))
    THEN [kind |-> "keynotfound", config |-> arrayParent]
    ELSE LET k == Head(keys)
             below == RemoveAt(Member(arrayParent, k), Tail(keys), item)
         IN  [kind |-> below.kind,
              config |-> IF below.kind = "ok" THEN WithMember(arrayParent, k, below.config)
                         ELSE arrayParent]

\* request.array_item ?? request.value
ItemOf(request) ==
    IF request.array_item \in {Undefined, Null} THEN request.value ELSE request.array_item

\* lines 36-46: the config that the call starts with, None when get returns
\* '{}' at once
ReadConfig(disk, request) ==
    IF disk.kind = "json" THEN Some(disk.value)
    ELSE IF request.operation = "get" THEN None
    ELSE Some(Obj(<<>>))

\* lines 50-149: the switch on request.operation; kind "value" is a returned
\* value, "ok" the break with needsWrite = true, "error" a raised error
Switch(config, request) ==
    IF request.operation = "get"
    THEN [kind |-> "value",
          config |-> IF request.key # None
                     THEN (LET value == getNestedValue(config, request.key[1]) IN
                           IF value = Undefined THEN Null ELSE Stringify(value))
                     ELSE Stringify(config)]
    ELSE IF request.key = None THEN [kind |-> "error", config |-> config]
    ELSE IF request.operation = "set"
    THEN [kind |-> "ok", config |-> SetAt(config, request.key[1], request.value)]
    ELSE IF request.operation = "delete" THEN DeleteAt(config, request.key[1])
    ELSE IF request.operation = "add" THEN AddAt(config, request.key[1], ItemOf(request))
    ELSE RemoveAt(config, request.key[1], ItemOf(request))

\* line 152: needsWrite
NeedsWrite(outcome) == outcome.kind = "ok"

\* mutant: the config is written before the switch on the operation
updateConfigWritingFirst(disk, writable, request) ==
    LET start == ReadConfig(disk, request) IN
    IF start = None
    THEN [result |-> [kind |-> "value", value |-> Obj(<<>>)], disk |-> disk]
    ELSE LET outcome == Switch(start[1], request)
             config == IF NeedsWrite(outcome) THEN outcome.config ELSE start[1]
         IN  [result |-> [kind |-> IF NeedsWrite(outcome) THEN "success" ELSE outcome.kind,
                          value |-> Stringify(outcome.config)],
              disk |-> IF writable /\ request.operation # "get"
                       THEN [kind |-> "json", value |-> Stringify(config)]
                       ELSE disk]

\* updateConfig(request) on config.json: what it returns and the file after
\* the call; an error of writeFileSync is caught at line 158
updateConfig(disk, writable, request) ==
    LET start == ReadConfig(disk, request) IN
    IF start = None
    THEN [result |-> [kind |-> "value", value |-> Obj(<<>>)], disk |-> disk]
    ELSE LET outcome == Switch(start[1], request) IN
         IF NeedsWrite(outcome)
         THEN IF writable
              THEN [result |-> [kind |-> "success", value |-> Stringify(outcome.config)],
                    disk |-> [kind |-> "json", value |-> Stringify(outcome.config)]]
              ELSE [result |-> [kind |-> "error", value |-> Null], disk |-> disk]
         ELSE [result |-> [kind |-> outcome.kind,
                           value |-> IF outcome.kind = "value" THEN outcome.config ELSE Null],
               disk |-> disk]

\* path.resolve(process.cwd(), path)
Resolve(path) == <<"cwd", path>>

\* loadConfig() of src/config.ts: the Config, None when it throws
LoadServerConfig(disk) ==
    IF disk.kind # "json" \/ ~IsObjectLike(disk.value) THEN None
    ELSE LET config == disk.value
             dirs == Member(config, "searchableDirectories")
         IN  IF \/ Member(config, "repoBasePath").t # "string"
                \/ dirs.t # "array"
                \/ \E i \in 1..Len(dirs.items) : dirs.items[i].t # "string"
             THEN None
             ELSE Some([repoBasePath |-> Resolve(Member(config, "repoBasePath").v),
                        searchableDirectories |->
                            [i \in 1..Len(dirs.items) |-> dirs.items[i].v],
                        cacheDir |-> IF Member(config, "cacheDir").t = "string"
                                     THEN Resolve(Member(config, "cacheDir").v)
                                     ELSE Resolve("mcp-cache")])

\* the contents of config.json in the model
ValidConfig ==
    Obj([k \in {"repoBasePath", "searchableDirectories", "cacheDir"} |->
            IF k = "searchableDirectories" THEN Arr(<<Str("x")>>, <<>>)
            ELSE IF k = "repoBasePath" THEN Str("r") ELSE Str("c")])
NestedConfig == WithMember(ValidConfig, "a", Obj([k \in {"b"} |-> Arr(<<Str("x")>>, <<>>)]))
Disks ==
    {[kind |-> "missing", value |-> Null], [kind |-> "invalid", value |-> Null],
     [kind |-> "json", value |-> Obj(<<>>)], [kind |-> "json", value |-> ValidConfig],
     [kind |-> "json", value |-> NestedConfig]}

\* the requests of the model; key is the path split at the dots
UpdateRequests ==
    {request \in [operation : {"get", "set", "delete", "add", "remove"},
                  key : {None, Some(<<"searchableDirectories">>), Some(<<"cacheDir">>),
                         Some(<<"a", "b">>)},
                  value : {Undefined, Str("y")},
                  array_item : {Undefined, Str("y")}] :
        request.value = Undefined \/ request.array_item = Undefined}

InitUpdate ==
    /\ IdleCache
    /\ fsStat = [f \in CacheFiles |-> [exists |-> TRUE, mtimeMs |-> 1]]
    /\ IdleTorn
    /\ IdleMatch
    /\ IdleFetch
    /\ IdleRefs
    /\ IdleExtract
    /\ IdleBatch
    /\ IdleConfig
    /\ IdleScan
    /\ uDisk \in Disks
    /\ uWritable \in BOOLEAN
    /\ uServer = None
    /\ uReq = None
    /\ uResult = None
    /\ uUsed = None
    /\ uCalls = 0
    /\ uEdits = 0

\* server.ts lines 56-57: the constructor loads the configuration; when
\* loadConfig throws, no server runs
ConstructRunningServer ==
    /\ uServer = None
    /\ LoadServerConfig(uDisk) # None
    /\ uServer' = LoadServerConfig(uDisk)
    /\ UNCHANGED <<uDisk, uWritable, uReq, uResult, uUsed, uCalls, uEdits>>
    /\ UNCHANGED notUpdateVars

\* mutant: the handler of update-config loads the configuration again
HandleUpdateConfigReloading(request) ==
    /\ uServer # None
    /\ uCalls < MaxCalls
    /\ LET call == updateConfig(uDisk, uWritable, request) IN
         /\ uDisk' = call.disk
         /\ uResult' = Some(call.result)
         /\ uServer' = IF LoadServerConfig(call.disk) # None
                       THEN LoadServerConfig(call.disk) ELSE uServer
    /\ uReq' = Some(request)
    /\ uCalls' = uCalls + 1
    /\ UNCHANGED <<uWritable, uUsed, uEdits>>
    /\ UNCHANGED notUpdateVars

\* server.ts lines 173-184: the handler of update-config
HandleUpdateConfig(request) ==
    /\ uServer # None
    /\ uCalls < MaxCalls
    /\ LET call == updateConfig(uDisk, uWritable, request) IN
         /\ uDisk' = call.disk
         /\ uResult' = Some(call.result)
    /\ uReq' = Some(request)
    /\ uCalls' = uCalls + 1
    /\ UNCHANGED <<uWritable, uServer, uUsed, uEdits>>
    /\ UNCHANGED notUpdateVars

\* server.ts lines 160-171, 204-207: fetchContext(input, this.config)
HandleFetchContext ==
    /\ uServer # None
    /\ uUsed' = uServer
    /\ UNCHANGED <<uDisk, uWritable, uServer, uReq, uResult, uCalls, uEdits>>
    /\ UNCHANGED notUpdateVars

\* config.json is replaced or removed by another program, or its
\* permissions change
EditFromOutside ==
    /\ uServer # None
    /\ uEdits < MaxEdits
    /\ \E disk \in Disks, writable \in BOOLEAN :
         /\ <<disk, writable>> # <<uDisk, uWritable>>
         /\ uDisk' = disk
         /\ uWritable' = writable
    /\ uEdits' = uEdits + 1
    /\ UNCHANGED <<uServer, uReq, uResult, uUsed, uCalls>>
    /\ UNCHANGED notUpdateVars

NextUpdate ==
    \/ ConstructRunningServer
    \/ \E request \in UpdateRequests : HandleUpdateConfig(request)
    \/ HandleFetchContext
    \/ EditFromOutside

SpecUpdate == InitUpdate /\ [][NextUpdate]_vars

\* what get of the key returns on the file: the elements when it is an array
GetItems(disk, keys) ==
    LET got == updateConfig(disk, TRUE,
                            [operation |-> "get", key |-> Some(keys),
                             value |-> Undefined, array_item |-> Undefined]).result.value
    IN  IF got.t = "array" THEN Some(got.items) ELSE None

\* the step is an update-config call
IsUpdateCall == uCalls' = uCalls + 1

\* C37: whenever updateConfig({operation: 'add', key, array_item}) reports
\* 'Configuration updated successfully', a following get of the key returns
\* an array whose last element is the added item and whose earlier elements
\* are the ones from before; also when the key or parent keys of a dotted
\* path were missing.
C37_AddAppends ==
    [][(/\ IsUpdateCall
        /\ uReq'[1].operation = "add"
        /\ uReq'[1].array_item # Undefined
        /\ uResult'[1].kind = "success")
       => LET keys == uReq'[1].key[1]
              before == IF GetItems(uDisk, keys) = None THEN <<>>
                        ELSE GetItems(uDisk, keys)[1]
          IN  GetItems(uDisk', keys) = Some(Append(before, uReq'[1].array_item))]_vars

\* C38: updateConfig never raises and leaves config.json unchanged on every
\* outcome but success: when it returns 'Error updating configuration',
\* 'Key not found' or 'Item not found in array', the file is the same as
\* before the call; get never writes.
C38_FailureLeavesFile ==
    [][IsUpdateCall
       => /\ uResult'[1].kind \in {"success", "value", "error", "keynotfound",
                                   "itemnotfound"}
          /\ (uResult'[1].kind # "success" \/ uReq'[1].operation = "get")
                 => uDisk' = uDisk]_vars

\* an add to a key that holds no array returned the error message from a
\* file with content
C38_Witness ==
    /\ uCalls > 0
    /\ uReq[1].operation = "add"
    /\ uReq[1].key = Some(<<"cacheDir">>)
    /\ uResult[1].kind = "error"
    /\ uWritable
    /\ uDisk.kind = "json"
    /\ Member(uDisk.value, "cacheDir") = Str("c")

\* C39: the configuration that fetch-context uses is fixed when the server
\* is constructed: no update-config call changes the searchableDirectories
\* or the cacheDir that later fetch-context calls use, although config.json
\* is updated at once.
C39_ConfigFixedAtConstruction ==
    [][/\ uServer # None => uServer' = uServer
       /\ (uUsed' # uUsed /\ uUsed # None) => uUsed' = uUsed]_vars

\* fetch-context ran with the configuration of the construction after a
\* successful add to searchableDirectories changed config.json
C39_Witness ==
    /\ uUsed # None
    /\ uResult # None
    /\ uResult[1].kind = "success"
    /\ uReq[1].operation = "add"
    /\ uReq[1].key = Some(<<"searchableDirectories">>)
    /\ uEdits = 0
    /\ uUsed[1].searchableDirectories = <<"x">>
    /\ LoadServerConfig(uDisk) # None
    /\ LoadServerConfig(uDisk)[1].searchableDirectories = <<"x", "y">>

====
